---- MODULE Spec2Model ----
(***************************************************************************)
(* Lead-intake conversation orchestrator (IntelligentHybridOrchestrator,   *)
(* app/services/orchestration_service.py) as a state machine.              *)
(*                                                                         *)
(* Python strings are sequences of one-character strings, Python dicts are *)
(* functions whose DOMAIN is the set of keys present, None is the          *)
(* distinguished value NoneVal.  Timestamps are left out.                  *)
(***************************************************************************)
EXTENDS Integers, Sequences, FiniteSets, TLC

VARIABLES
    store,          \* Session Store: the record saved under the session id ({} = none)
    notifications,  \* number of dispatcher calls for the session since it was (re)created
    leadStored,     \* the Lead Store took a record of the session since it was (re)created
    result,         \* the last entry-point call: what it was given, what it returned
                    \* and the collaborator calls it made
    authEvent,      \* a handle_whatsapp_authorization call was processed for the id
    inflight        \* process_message calls that loaded the session and have not
                    \* persisted: call id -> [message, platform, loaded session]

vars == <<store, notifications, leadStored, result, authEvent, inflight>>

----------------------------------------------------------------------------
(* Bounds of the model. *)

MaxMessages == 6        \* process_message calls counted by message_count
MaxResets == 1          \* resets of a terminal session counted by reset_count
MaxNotifications == 2   \* dispatcher calls per session lifetime

----------------------------------------------------------------------------
(* Python str and dict primitives. *)

NoneVal == <<"None">>
EmptyDict == [k \in {} |-> TRUE]

Truthy(s) == s # NoneVal /\ s # <<>>

Get(d, k, default) == IF k \in DOMAIN d THEN d[k] ELSE default

Put(d, k, v) == [x \in DOMAIN d \cup {k} |-> IF x = k THEN v ELSE d[x]]

Update(d, e) == [x \in DOMAIN d \cup DOMAIN e |-> IF x \in DOMAIN e THEN e[x] ELSE d[x]]

IsSpace(c) == c = " "

IsDigit(c) == c \in {"0", "1", "2", "3", "4", "5", "6", "7", "8", "9"}

LowerChar(c) ==
    CASE c = "A" -> "a" [] c = "D" -> "d" [] c = "J" -> "j" [] c = "O" -> "o"
      [] c = "P" -> "p" [] c = "S" -> "s" [] c = "L" -> "l" [] c = "Q" -> "q"
      [] c = "C" -> "c" [] OTHER -> c

Lower(s) == [i \in 1..Len(s) |-> LowerChar(s[i])]

RECURSIVE LStrip(_)
LStrip(s) == IF s # <<>> /\ IsSpace(Head(s)) THEN LStrip(Tail(s)) ELSE s

RECURSIVE RStrip(_)
RStrip(s) ==
    IF s # <<>> /\ IsSpace(s[Len(s)]) THEN RStrip(SubSeq(s, 1, Len(s) - 1)) ELSE s

Strip(s) == RStrip(LStrip(s))

Digits(s) == SelectSeq(s, IsDigit)

HasDigit(s) == \E i \in 1..Len(s) : IsDigit(s[i])

Contains(s, kw) ==
    \E i \in 1..(Len(s) - Len(kw) + 1) : SubSeq(s, i, i + Len(kw) - 1) = kw

ContainsAny(s, kws) == \E kw \in kws : Contains(s, kw)

\* faulty count: every character counts as a token
TokenCountChars(s) == Len(s)

\* len(s.split()): the number of maximal runs of non-space characters
TokenCount(s) ==
    Cardinality({i \in 1..Len(s) : ~IsSpace(s[i]) /\ (i = 1 \/ IsSpace(s[i - 1]))})

----------------------------------------------------------------------------
(* Keyword tables and fixed texts of the orchestrator. *)

AreaKeywords ==
    {<<"p", "e", "n", "a", "l">>,
     <<"s", "a", "u", "d", "e">>,
     <<"s", "a", "uacute", "d", "e">>,
     <<"c", "r", "i", "m", "i", "n", "a", "l">>,
     <<"l", "i", "m", "i", "n", "a", "r">>,
     <<"m", "e", "d", "i", "c">>,
     <<"p", "l", "a", "n", "o">>}

HorarioKeywords ==
    {<<"m", "a", "n", "h", "atilde">>,
     <<"m", "a", "n", "h", "a">>,
     <<"t", "a", "r", "d", "e">>,
     <<"n", "o", "i", "t", "e">>,
     <<"h", "o", "r", "aacute", "r", "i", "o">>,
     <<"h", "o", "r", "a", "r", "i", "o">>,
     <<"h">>,
     <<":">>,
     <<"q", "u", "a", "l", "q", "u", "e", "r">>,
     <<"t", "a", "n", "t", "o", " ", "f", "a", "z">>,
     <<"n", "atilde", "o", " ", "m", "e", " ", "i", "m", "p", "o", "r", "t", "o">>}

ConfirmationWords ==
    {<<"s", "i", "m">>,
     <<"o", "k">>,
     <<"p", "o", "d", "e">>,
     <<"v", "a", "m", "o", "s">>,
     <<"c", "l", "a", "r", "o">>,
     <<"a", "c", "e", "i", "t", "o">>,
     <<"c", "o", "n", "c", "o", "r", "d", "o">>}

HighValueKeywords ==
    {<<"p", "e", "n", "a", "l">>,
     <<"s", "a", "u", "d", "e">>,
     <<"s", "a", "uacute", "d", "e">>,
     <<"c", "r", "i", "m", "i", "n", "a", "l">>,
     <<"p", "l", "a", "n", "o">>}

DefaultLeadName == <<"L", "e", "a", "d", " ", "Q", "u", "a", "l", "i", "f", "i", "c", "a", "d", "o">>

DefaultClientName == <<"C", "l", "i", "e", "n", "t", "e">>

DefaultArea == <<"n", "atilde", "o", " ", "e", "s", "p", "e", "c", "i", "f", "i", "c", "a", "d", "a">>

LandingDetails == <<"D", "e", "t", "a", "l", "h", "e", "s", " ", "d", "o", " ", "c", "h", "a", "t", " ", "d", "a", " ", "l", "a", "n", "d", "i", "n", "g">>

ConfirmationSim == <<"s", "i", "m">>

----------------------------------------------------------------------------
(* Inputs the environment may send. *)

MsgEmpty == <<>>

MsgJo == <<"J", "o">>

MsgName == <<"A", "n", "a", " ", "S", "a">>

MsgArea == <<"P", "e", "n", "a", "l">>

MsgDetails == <<"a", "c", "u", "s", "a", "d", "a", "-", "i", "n", "j", "u", "s", "t", "a", "m", "e", "n", "t", "e">>

MsgPhone == <<"1", "1", "9", "8", "7", "6", "5", "4", "3", "2", "1">>

MsgShort == <<"1", "2", "3">>

MsgSim == <<"s", "i", "m", " ">>

MsgTarde == <<"t", "a", "r", "d", "e">>

\* one accepted answer for each step, rejected at the other steps
Messages == {MsgName, MsgArea, MsgDetails, MsgPhone, MsgSim}

Platforms == {"web", "whatsapp"}

\* phone_number arguments: None, or the sender's number
PhoneArgs == {NoneVal, MsgPhone}

\* (platform, phone_number) of a process_message call: the web chat passes no
\* number, the WhatsApp webhook passes the sender's
CallArgs == {<<"web", NoneVal>>, <<"whatsapp", MsgPhone>>, <<"whatsapp", NoneVal>>}

\* what the notification dispatcher does with a call; a call that raises
\* leaves the same state as one that reports failure
NotifyOutcomes == {"success", "failure"}

\* what the outbound messaging client does with a send
SendOutcomes == {"success", "failure"}

----------------------------------------------------------------------------
(* Validator: _validate_answer.  The error texts are named by tags. *)

MinAnswerLen == 2
MinNameTokens == 2
MinDetailsLen == 15
MinPhoneDigits == 10
MaxPhoneDigits == 13

ErrGeneric == "Por favor, forneca uma resposta valida."
ErrName == "Por favor, informe seu nome completo (nome e sobrenome)."
ErrArea == "Por favor, escolha entre Direito Penal ou Direito da Saude."
ErrDetails == "Por favor, me conte mais detalhes sobre sua situacao"
ErrHorario == "Por favor, me diga qual o melhor horario para contato"
ErrPhone == "Por favor, digite um numero de WhatsApp valido com DDD"
ErrConfirmation == "Por favor, confirme se podemos prosseguir"

Accept == [ok |-> TRUE, error |-> ""]

Reject(text) == [ok |-> FALSE, error |-> text]

\* faulty Validator: only the length precondition is checked
ValidateAnswerUnchecked(answer, step, platform) == IF ~Truthy(answer) \/ Len(Strip(answer)) < MinAnswerLen THEN Reject(ErrGeneric) ELSE Accept

ValidateAnswer(answer, step, platform) ==
    IF ~Truthy(answer) \/ Len(Strip(answer)) < MinAnswerLen THEN Reject(ErrGeneric)
    ELSE CASE step = "step1_name" ->
                IF TokenCount(answer) < MinNameTokens THEN Reject(ErrName) ELSE Accept
           [] step = "step3_area" ->
                IF ~ContainsAny(Lower(answer), AreaKeywords) THEN Reject(ErrArea) ELSE Accept
           [] step = "step4_details" ->
                IF Len(Strip(answer)) < MinDetailsLen THEN Reject(ErrDetails) ELSE Accept
           [] step = "phone_collection" ->
                IF platform = "whatsapp"
                THEN IF ~ContainsAny(Lower(answer), HorarioKeywords) /\ ~HasDigit(answer)
                     THEN Reject(ErrHorario) ELSE Accept
                ELSE IF Len(Digits(answer)) < MinPhoneDigits
                        \/ Len(Digits(answer)) > MaxPhoneDigits
                     THEN Reject(ErrPhone) ELSE Accept
           [] step = "step5_confirmation" ->
                IF ~ContainsAny(Lower(answer), ConfirmationWords)
                THEN Reject(ErrConfirmation) ELSE Accept
           [] OTHER -> Accept

----------------------------------------------------------------------------
(* Qualification Scorer: _calculate_qualification_score, in hundredths. *)

ScoreNameLen == 15
ScoreNameTokens == 10
ScorePhone == 25
ScoreArea == 15
ScoreAreaHighValue == 10
ScoreDetails == 8
ScoreDetails20 == 4
ScoreDetails50 == 3
ScoreConfirmation == 10
ScoreCap == 100
NameMinLen == 3
PhoneMinLen == 10
DetailsLen20 == 20
DetailsLen50 == 50

ScoredFields ==
    {"identification", "phone", "area_qualification", "case_details", "confirmation"}

\* .strip() of a stored None raises; the scorer catches it and returns 0.0
ScoreRaises(lead_data) == \E f \in ScoredFields : Get(lead_data, f, <<>>) = NoneVal

Min(a, b) == IF a <= b THEN a ELSE b

\* faulty scorer: the case details earn nothing
CalculateQualificationScoreNoDetails(lead_data, platform) ==
    IF ScoreRaises(lead_data) THEN 0
    ELSE LET name == Strip(Get(lead_data, "identification", <<>>))
             phone == Strip(Get(lead_data, "phone", <<>>))
             area == Strip(Get(lead_data, "area_qualification", <<>>))
             confirmation == Strip(Get(lead_data, "confirmation", <<>>))
         IN Min(ScoreCap,
                (IF Len(name) >= NameMinLen THEN ScoreNameLen ELSE 0)
                + (IF TokenCount(name) >= MinNameTokens THEN ScoreNameTokens ELSE 0)
                + (IF phone # <<>> /\ Len(phone) >= PhoneMinLen THEN ScorePhone ELSE 0)
                + (IF area # <<>> THEN ScoreArea ELSE 0)
                + (IF area # <<>> /\ ContainsAny(Lower(area), HighValueKeywords)
                   THEN ScoreAreaHighValue ELSE 0)
                + (IF confirmation # <<>> THEN ScoreConfirmation ELSE 0))

CalculateQualificationScore(lead_data, platform) ==
    IF ScoreRaises(lead_data) THEN 0
    ELSE LET name == Strip(Get(lead_data, "identification", <<>>))
             phone == Strip(Get(lead_data, "phone", <<>>))
             area == Strip(Get(lead_data, "area_qualification", <<>>))
             details == Strip(Get(lead_data, "case_details", <<>>))
             confirmation == Strip(Get(lead_data, "confirmation", <<>>))
         IN Min(ScoreCap,
                (IF Len(name) >= NameMinLen THEN ScoreNameLen ELSE 0)
                + (IF TokenCount(name) >= MinNameTokens THEN ScoreNameTokens ELSE 0)
                + (IF phone # <<>> /\ Len(phone) >= PhoneMinLen THEN ScorePhone ELSE 0)
                + (IF area # <<>> THEN ScoreArea ELSE 0)
                + (IF area # <<>> /\ ContainsAny(Lower(area), HighValueKeywords)
                   THEN ScoreAreaHighValue ELSE 0)
                + (IF details # <<>> THEN ScoreDetails ELSE 0)
                + (IF details # <<>> /\ Len(details) >= DetailsLen20 THEN ScoreDetails20 ELSE 0)
                + (IF details # <<>> /\ Len(details) >= DetailsLen50 THEN ScoreDetails50 ELSE 0)
                + (IF confirmation # <<>> THEN ScoreConfirmation ELSE 0))

----------------------------------------------------------------------------
(* Notification Gate: should_notify_lawyers and _get_missing_criteria. *)

WebThreshold == 80
WhatsappThreshold == 70
MinEngagement == 3
AreaMinLen == 3

WebRequiredFields ==
    {"identification", "area_qualification", "case_details", "phone", "confirmation"}

WhatsappRequiredFields == {"identification", "area_qualification", "phone"}

HasFields(lead_data, fields) == \A f \in fields : Truthy(Get(lead_data, f, NoneVal))

LenOf(lead_data, f) == Len(Strip(Get(lead_data, f, <<>>)))

GetMissingCriteria(session_data, platform) ==
    LET lead_data == Get(session_data, "lead_data", EmptyDict)
        missing(f) == ~Truthy(Get(lead_data, f, NoneVal))
    IN (IF missing("identification") THEN <<"nome_completo">> ELSE <<>>)
       \o (IF missing("phone") THEN <<"telefone">> ELSE <<>>)
       \o (IF missing("area_qualification") THEN <<"area_juridica">> ELSE <<>>)
       \o (IF platform = "web" /\ missing("case_details") THEN <<"detalhes_caso">> ELSE <<>>)
       \o (IF platform = "web" /\ missing("confirmation") THEN <<"confirmacao">> ELSE <<>>)
       \o (IF platform = "web" /\ ~Get(session_data, "flow_completed", FALSE)
           THEN <<"fluxo_incompleto">> ELSE <<>>)
       \o (IF platform = "whatsapp" /\ Get(session_data, "message_count", 0) < MinEngagement
           THEN <<"engajamento_insuficiente">> ELSE <<>>)

\* faulty criteria: a flow still open qualifies
WebCriteriaMetOpenFlow(session_data) ==
    LET lead_data == Get(session_data, "lead_data", EmptyDict)
    IN /\ HasFields(lead_data, WebRequiredFields)
       /\ LenOf(lead_data, "identification") >= NameMinLen
       /\ LenOf(lead_data, "case_details") >= MinDetailsLen
       /\ LenOf(lead_data, "phone") >= PhoneMinLen

WebCriteriaMet(session_data) ==
    LET lead_data == Get(session_data, "lead_data", EmptyDict)
    IN /\ Get(session_data, "flow_completed", FALSE)
       /\ HasFields(lead_data, WebRequiredFields)
       /\ LenOf(lead_data, "identification") >= NameMinLen
       /\ LenOf(lead_data, "case_details") >= MinDetailsLen
       /\ LenOf(lead_data, "phone") >= PhoneMinLen

\* faulty criteria: any step qualifies
WhatsappCriteriaMetAnyStep(session_data) ==
    LET lead_data == Get(session_data, "lead_data", EmptyDict)
    IN /\ Get(session_data, "message_count", 0) >= MinEngagement
       /\ HasFields(lead_data, WhatsappRequiredFields)
       /\ LenOf(lead_data, "identification") >= NameMinLen
       /\ LenOf(lead_data, "area_qualification") >= AreaMinLen
       /\ LenOf(lead_data, "phone") >= PhoneMinLen

WhatsappCriteriaMet(session_data) ==
    LET lead_data == Get(session_data, "lead_data", EmptyDict)
    IN /\ Get(session_data, "message_count", 0) >= MinEngagement
       /\ HasFields(lead_data, WhatsappRequiredFields)
       /\ LenOf(lead_data, "identification") >= NameMinLen
       /\ LenOf(lead_data, "area_qualification") >= AreaMinLen
       /\ LenOf(lead_data, "phone") >= PhoneMinLen
       /\ Get(session_data, "current_step", "") \in {"step5_confirmation", "completed"}

\* faulty guard: it never sees the flag
NeverNotified(session_data) == FALSE

\* the idempotency guard of the gate and of the finalization procedure
AlreadyNotified(session_data) == Get(session_data, "lawyers_notified", FALSE)

\* the gate's evaluation of a session that passed the guard
EvaluateQualification(session_data, platform) ==
    LET lead_data == Get(session_data, "lead_data", EmptyDict)
        score == CalculateQualificationScore(lead_data, platform)
    IN IF platform = "web" /\ WebCriteriaMet(session_data) /\ score >= WebThreshold
       THEN [should_notify |-> TRUE, reason |-> "web_flow_completed",
             qualification_score |-> score]
       ELSE IF platform = "whatsapp" /\ WhatsappCriteriaMet(session_data)
               /\ score >= WhatsappThreshold
       THEN [should_notify |-> TRUE, reason |-> "whatsapp_qualified",
             qualification_score |-> score]
       ELSE [should_notify |-> FALSE, reason |-> "not_qualified_yet",
             qualification_score |-> score,
             missing_criteria |-> GetMissingCriteria(session_data, platform)]

AlreadyNotifiedReply == [should_notify |-> FALSE, reason |-> "already_notified"]

\* faulty gate: the guard is applied to the web platform only
ShouldNotifyLawyersWebGuard(session_data, platform) ==
    IF platform = "web" /\ AlreadyNotified(session_data) THEN AlreadyNotifiedReply
    ELSE EvaluateQualification(session_data, platform)

ShouldNotifyLawyers(session_data, platform) ==
    IF AlreadyNotified(session_data) THEN AlreadyNotifiedReply
    ELSE EvaluateQualification(session_data, platform)

----------------------------------------------------------------------------
(* Phone normalisation: _format_brazilian_phone. *)

CountryCode == <<"5", "5">>
LenNational10 == 10

\* faulty normalisation: the country code is prepended to whatever is given
FormatBrazilianPhoneKeepingCode(phone) ==
    IF ~Truthy(phone) THEN <<>> ELSE CountryCode \o Digits(phone)

FormatBrazilianPhone(phone) ==
    IF ~Truthy(phone) THEN <<>>
    ELSE LET d == Digits(phone)
             clean == IF Len(d) >= 2 /\ SubSeq(d, 1, 2) = CountryCode
                      THEN SubSeq(d, 3, Len(d)) ELSE d
         IN IF Len(clean) = LenNational10
            THEN LET ddd == SubSeq(clean, 1, 2)
                     number == SubSeq(clean, 3, Len(clean))
                 IN IF number[1] \in {"6", "7", "8", "9"}
                    THEN CountryCode \o ddd \o <<"9">> \o number
                    ELSE CountryCode \o ddd \o number
            ELSE CountryCode \o clean

----------------------------------------------------------------------------
(* Session lifecycle: _get_or_create_session. *)

SessionId == "s1"

\* faulty test: a completed session is not taken for terminal
EndedOnly(session_data) == Get(session_data, "session_ended", FALSE)

\* faulty test: an ended session still counts as open
CompletedOnly(session_data) == Get(session_data, "flow_completed", FALSE)

IsTerminal(session_data) ==
    Get(session_data, "session_ended", FALSE) \/ Get(session_data, "flow_completed", FALSE)

\* faulty creation: the new session does not wait for its first message
NewSessionGreeted(platform) == [session_id |-> SessionId, platform |-> platform, current_step |-> "greeting", lead_data |-> EmptyDict, message_count |-> 0, flow_completed |-> FALSE, phone_submitted |-> FALSE, lawyers_notified |-> FALSE, first_interaction |-> FALSE, whatsapp_authorized |-> FALSE, session_ended |-> FALSE]

NewSession(platform) ==
    [session_id |-> SessionId, platform |-> platform, current_step |-> "greeting",
     lead_data |-> EmptyDict, message_count |-> 0, flow_completed |-> FALSE,
     phone_submitted |-> FALSE, lawyers_notified |-> FALSE, first_interaction |-> TRUE,
     whatsapp_authorized |-> FALSE, session_ended |-> FALSE]

\* faulty reset: the authorization is dropped
DroppedAuthorization(old, platform) == FALSE

\* the authorization a replacement record takes over from the old one
CarriedAuthorization(old, platform) ==
    IF platform = "whatsapp" THEN Get(old, "whatsapp_authorized", FALSE) ELSE FALSE

ResetSession(old, platform, phone_number) ==
    [session_id |-> SessionId, platform |-> platform, current_step |-> "greeting",
     lead_data |-> EmptyDict, message_count |-> 0, flow_completed |-> FALSE,
     phone_submitted |-> FALSE, lawyers_notified |-> FALSE, first_interaction |-> TRUE,
     whatsapp_authorized |-> CarriedAuthorization(old, platform),
     authorization_source |-> Get(old, "authorization_source", ""),
     session_ended |-> FALSE,
     phone_number |->
        IF platform = "whatsapp" THEN Get(old, "phone_number", phone_number)
        ELSE phone_number,
     reset_count |-> Get(old, "reset_count", 0) + 1]

\* faulty lookup: the phone number put on the session is saved with it
GetOrCreateSessionSavingPhone(stored, platform, phone_number) ==
    IF DOMAIN stored # {} /\ IsTerminal(stored)
    THEN LET fresh == ResetSession(stored, platform, phone_number)
         IN [session |-> fresh, saved |-> fresh, reset |-> TRUE]
    ELSE LET base == IF DOMAIN stored = {} THEN NewSession(platform) ELSE stored
             phoned == IF Truthy(phone_number)
                       THEN Put(base, "phone_number", phone_number) ELSE base
         IN [session |-> phoned, saved |-> phoned, reset |-> FALSE]

\* faulty lookup: an open session takes the platform of the call
GetOrCreateSessionRechanneled(stored, platform, phone_number) ==
    IF DOMAIN stored # {} /\ IsTerminal(stored)
    THEN LET fresh == ResetSession(stored, platform, phone_number)
         IN [session |-> fresh, saved |-> fresh, reset |-> TRUE]
    ELSE LET base == IF DOMAIN stored = {} THEN NewSession(platform)
                     ELSE Put(stored, "platform", platform)
         IN [session |-> IF Truthy(phone_number)
                         THEN Put(base, "phone_number", phone_number) ELSE base,
             saved |-> base, reset |-> FALSE]

\* the session handed to the caller and the record left in the store
GetOrCreateSession(stored, platform, phone_number) ==
    IF DOMAIN stored # {} /\ IsTerminal(stored)
    THEN LET fresh == ResetSession(stored, platform, phone_number)
         IN [session |-> fresh, saved |-> fresh, reset |-> TRUE]
    ELSE LET base == IF DOMAIN stored = {} THEN NewSession(platform) ELSE stored
         IN [session |-> IF Truthy(phone_number)
                         THEN Put(base, "phone_number", phone_number) ELSE base,
             saved |-> base, reset |-> FALSE]

----------------------------------------------------------------------------
(* Step Definitions: _get_flow_steps. *)

\* faulty table: the name step leads straight to the details step
FlowStepsSkippingArea(platform) ==
    [greeting |-> [field |-> "", next_step |-> "step1_name"],
     step1_name |-> [field |-> "identification", next_step |-> "step4_details"],
     step3_area |-> [field |-> "area_qualification", next_step |-> "step4_details"],
     step4_details |-> [field |-> "case_details", next_step |-> "phone_collection"],
     phone_collection |->
        [field |-> IF platform = "whatsapp" THEN "preferred_contact_time" ELSE "phone",
         next_step |-> "step5_confirmation"],
     step5_confirmation |-> [field |-> "confirmation", next_step |-> "completed"]]

\* field "" stands for the greeting step's field None
FlowSteps(platform) ==
    [greeting |-> [field |-> "", next_step |-> "step1_name"],
     step1_name |-> [field |-> "identification", next_step |-> "step3_area"],
     step3_area |-> [field |-> "area_qualification", next_step |-> "step4_details"],
     step4_details |-> [field |-> "case_details", next_step |-> "phone_collection"],
     phone_collection |->
        [field |-> IF platform = "whatsapp" THEN "preferred_contact_time" ELSE "phone",
         next_step |-> "step5_confirmation"],
     step5_confirmation |-> [field |-> "confirmation", next_step |-> "completed"]]

----------------------------------------------------------------------------
(* Notification dispatch: the call both paths make to                      *)
(* lawyer_notification_service.notify_lawyers_of_new_lead.                 *)

\* faulty call: the category is not the area given
DispatchCallDefaultCategory(session_data, lead_name, lead_phone, category, lead_source, outcome) ==
    [lead_name |-> lead_name, lead_phone |-> lead_phone, category |-> DefaultArea,
     lead_source |-> lead_source, outcome |-> outcome,
     current_step |-> Get(session_data, "current_step", ""),
     flow_completed |-> Get(session_data, "flow_completed", FALSE)]

\* the dispatcher's call record: its arguments, the session's state when it
\* was called, and what the dispatcher answered
DispatchCall(session_data, lead_name, lead_phone, category, lead_source, outcome) ==
    [lead_name |-> lead_name, lead_phone |-> lead_phone, category |-> category,
     lead_source |-> lead_source, outcome |-> outcome,
     current_step |-> Get(session_data, "current_step", ""),
     flow_completed |-> Get(session_data, "flow_completed", FALSE)]

\* faulty mark: the flag is not set
MarkNothing(session_data) == session_data

MarkNotified(session_data) == Put(session_data, "lawyers_notified", TRUE)

\* notify_lawyers_if_qualified: [session, saved, calls, reply]; saved is FALSE
\* when nothing was written to the store
NotifyLawyersIfQualified(session_data, platform, env) ==
    LET check == ShouldNotifyLawyers(session_data, platform)
        lead_data == Get(session_data, "lead_data", EmptyDict)
        call == DispatchCall(session_data,
                             Get(lead_data, "identification", DefaultLeadName),
                             Get(lead_data, "phone", <<>>),
                             Get(lead_data, "area_qualification", DefaultArea),
                             IF platform = "web" THEN "web_qualified_lead"
                             ELSE "whatsapp_qualified_lead",
                             env.notify)
    IN IF ~check.should_notify
       THEN [session |-> session_data, saved |-> FALSE, calls |-> <<>>, leads |-> 0,
             reply |-> [notified |-> FALSE, reason |-> check.reason]]
       ELSE IF env.notify = "success"
       THEN [session |-> MarkNotified(session_data), saved |-> TRUE, calls |-> <<call>>,
             leads |-> 0, reply |-> [notified |-> TRUE, reason |-> "success"]]
       ELSE [session |-> session_data, saved |-> FALSE, calls |-> <<call>>, leads |-> 0,
             reply |-> [notified |-> TRUE,
                        reason |-> IF env.notify = "failure" THEN "notification_failed"
                                   ELSE "notification_exception"]]

----------------------------------------------------------------------------
(* Finalization Procedure: _handle_lead_finalization. *)

FinalMessage(notification_success, whatsapp_success) ==
    <<"final",
      IF notification_success THEN "equipe notificada" ELSE "",
      IF whatsapp_success THEN "confirmacao enviada no WhatsApp" ELSE "informacoes salvas">>

\* [session, calls, leads, sent, response]: the session as last saved, the
\* dispatcher calls made, Lead Store appends, outbound texts, the reply
HandleLeadFinalization(session_data, env) ==
    LET lead_data == Get(session_data, "lead_data", EmptyDict)
        platform == Get(session_data, "platform", "web")
        user_name == Get(lead_data, "identification", DefaultClientName)
        area == Get(lead_data, "area_qualification", DefaultArea)
        from_lead == Get(lead_data, "phone", <<>>)
        phone_clean == IF Truthy(from_lead) THEN from_lead
                       ELSE Get(session_data, "phone_number", <<>>)
    IN IF ~Truthy(phone_clean) \/ Len(phone_clean) < PhoneMinLen
       THEN [session |-> session_data, calls |-> <<>>, leads |-> 0, sent |-> 0,
             response |-> <<"phone_reprompt">>]
       ELSE LET updated ==
                    Update(session_data,
                           [phone_number |-> phone_clean,
                            phone_formatted |-> FormatBrazilianPhone(phone_clean),
                            phone_submitted |-> TRUE,
                            lead_qualified |-> TRUE,
                            lead_data |-> Put(lead_data, "phone", phone_clean)])
                already == AlreadyNotified(updated)
                call == DispatchCall(updated, user_name, phone_clean, area,
                                     IF platform = "whatsapp" THEN "whatsapp_completed_flow"
                                     ELSE "web_completed_flow",
                                     env.notify)
                dispatched == ~already
                notification_success == already \/ env.notify = "success"
                whatsapp_success == platform = "web" /\ env.send = "success"
            IN [session |-> IF dispatched /\ env.notify = "success"
                            THEN MarkNotified(updated) ELSE updated,
                calls |-> IF dispatched THEN <<call>> ELSE <<>>,
                leads |-> 1,
                sent |-> IF platform = "web" THEN 1 ELSE 0,
                response |-> FinalMessage(notification_success, whatsapp_success)]

----------------------------------------------------------------------------
(* Flow Controller: _process_conversation_flow. *)

StepNames ==
    {"greeting", "step1_name", "step3_area", "step4_details", "phone_collection",
     "step5_confirmation"}

NoEffect(session_data, response) ==
    [session |-> session_data, calls |-> <<>>, leads |-> 0, sent |-> 0,
     response |-> response]

Question(step) == <<"question", step>>

\* faulty rejection: the step advances all the same
RejectedAdvancing(session_data, verdict) ==
    NoEffect(Put(session_data, "current_step", "step5_confirmation"),
             <<"error", verdict.error>>)

\* a rejected answer: the Validator's text, the session as it was
Rejected(session_data, verdict) == NoEffect(session_data, <<"error", verdict.error>>)

\* faulty completion: the flag is not set
CompletedStepOnly(session_data) == Put(session_data, "current_step", "completed")

\* faulty completion: the session stays at the confirmation step
NotCompleted(session_data) == session_data

\* the last step's answer closes the flow
Completed(session_data) ==
    Update(session_data, [current_step |-> "completed", flow_completed |-> TRUE])

\* faulty branch: the answer's digits go to phone on either platform
PhoneCollectionStepAnyChannel(session_data, message) ==
    LET platform == Get(session_data, "platform", "web")
        lead_data == Get(session_data, "lead_data", EmptyDict)
        verdict == ValidateAnswer(message, "phone_collection", platform)
    IN IF ~verdict.ok THEN Rejected(session_data, verdict)
       ELSE NoEffect(Update(session_data,
                            [lead_data |-> Put(lead_data, "phone", Digits(message)),
                             phone_submitted |-> TRUE,
                             current_step |-> "step5_confirmation"]),
                     Question("step5_confirmation"))

\* the phone_collection branch of the controller
\* faulty phone step: the accepted answer is stored and the step asked again
PhoneCollectionStepStuck(session_data, message) ==
    NoEffect(Put(session_data, "phone_submitted", TRUE), Question("phone_collection"))

PhoneCollectionStep(session_data, message) ==
    LET platform == Get(session_data, "platform", "web")
        lead_data == Get(session_data, "lead_data", EmptyDict)
        verdict == ValidateAnswer(message, "phone_collection", platform)
        phone_from_session == Get(session_data, "phone_number", <<>>)
        written ==
            IF platform = "whatsapp"
            THEN LET timed == Put(lead_data, "preferred_contact_time", Strip(message))
                 IN IF Truthy(phone_from_session)
                    THEN Put(timed, "phone", phone_from_session) ELSE timed
            ELSE Put(lead_data, "phone", Digits(message))
    IN IF ~verdict.ok THEN Rejected(session_data, verdict)
       ELSE NoEffect(Update(session_data,
                            [lead_data |-> written, phone_submitted |-> TRUE,
                             current_step |-> "step5_confirmation"]),
                     Question("step5_confirmation"))

\* faulty step: the accepted answer replaces the answers collected so far
TableStepClearing(session_data, message, env) ==
    LET platform == Get(session_data, "platform", "web")
        current_step == Get(session_data, "current_step", "greeting")
        step_config == FlowSteps(platform)[current_step]
        verdict == ValidateAnswer(message, current_step, platform)
        written == IF step_config.field # ""
                   THEN Put(EmptyDict, step_config.field, Strip(message)) ELSE EmptyDict
        answered == Put(session_data, "lead_data", written)
    IN IF ~verdict.ok THEN Rejected(session_data, verdict)
       ELSE IF step_config.next_step = "completed"
       THEN HandleLeadFinalization(Completed(answered), env)
       ELSE NoEffect(Put(answered, "current_step", step_config.next_step),
                     Question(step_config.next_step))

\* the branch for every other step of the table
TableStep(session_data, message, env) ==
    LET platform == Get(session_data, "platform", "web")
        current_step == Get(session_data, "current_step", "greeting")
        lead_data == Get(session_data, "lead_data", EmptyDict)
        step_config == FlowSteps(platform)[current_step]
        verdict == ValidateAnswer(message, current_step, platform)
        written == IF step_config.field # ""
                   THEN Put(lead_data, step_config.field, Strip(message)) ELSE lead_data
        answered == Put(session_data, "lead_data", written)
    IN IF ~verdict.ok THEN Rejected(session_data, verdict)
       ELSE IF step_config.next_step = "completed"
       THEN HandleLeadFinalization(Completed(answered), env)
       ELSE NoEffect(Put(answered, "current_step", step_config.next_step),
                     Question(step_config.next_step))

\* faulty fallback: the greeting is returned and the session left as it is
InvalidStateKept(session_data) == NoEffect(session_data, <<"greeting">>)

\* a current_step that no branch of the controller knows: back to the greeting
InvalidState(session_data) ==
    NoEffect(Update(session_data, [current_step |-> "greeting", first_interaction |-> TRUE]),
             <<"greeting">>)

ProcessConversationFlow(session_data, message, env) ==
    LET current_step == Get(session_data, "current_step", "greeting")
    IN IF "session_id" \notin DOMAIN session_data
       THEN NoEffect(session_data, <<"greeting">>)     \* KeyError, caught at line 816
       ELSE IF Get(session_data, "session_ended", FALSE)
       THEN NoEffect(session_data, <<"already_finished">>)
       ELSE IF Get(session_data, "first_interaction", FALSE)
       THEN NoEffect(Update(session_data,
                            [first_interaction |-> FALSE, current_step |-> "step1_name"]),
                     <<"greeting", "question", "step1_name">>)
       ELSE IF current_step = "greeting"
       THEN NoEffect(Put(session_data, "current_step", "step1_name"),
                     Question("step1_name"))
       ELSE IF current_step = "completed"
       THEN NoEffect(session_data, <<"closing">>)
       ELSE IF current_step = "phone_collection"
       THEN PhoneCollectionStep(session_data, message)
       ELSE IF current_step \in StepNames
       THEN TableStep(session_data, message, env)
       ELSE InvalidState(session_data)

----------------------------------------------------------------------------
(* Entry points. *)

Envs == [notify : NotifyOutcomes, send : SendOutcomes]

QuietEnv == [notify |-> "success", send |-> "success"]

\* the collaborators' answers matter only to a call that reaches them: probe
\* is the call's outcome under QuietEnv
EnvsFor(probe) == IF probe.calls = <<>> /\ probe.leads = 0 THEN {QuietEnv} ELSE Envs

\* what the last call was and did. platform, phone_number: its arguments;
\* reset: it replaced a terminal record; calls, leads, sent: the dispatcher
\* calls, Lead Store appends and outbound texts it made
Result(op, platform, phone_number, status, response, reset, calls, appended, sent) ==
    [op |-> op, platform |-> platform, phone_number |-> phone_number, status |-> status,
     response |-> response, reset |-> reset, calls |-> calls, leads |-> appended,
     sent |-> sent]

\* the per-session logs take what one call produced; a call that replaces the
\* session record by a new one (fresh) starts them again
Record(fresh, calls, appended) ==
    /\ notifications' = (IF fresh THEN 0 ELSE notifications) + Len(calls)
    /\ leadStored' = ((~fresh /\ leadStored) \/ appended > 0)
    /\ notifications' <= MaxNotifications

\* faulty check: nobody is turned away
NeverUnauthorized(session_data, platform) == FALSE

\* the WhatsApp authorization check of process_message
Unauthorized(session_data, platform) ==
    /\ platform = "whatsapp"
    /\ ~Get(session_data, "whatsapp_authorized", FALSE)
    /\ DOMAIN Get(session_data, "lead_data", EmptyDict) = {}

\* the session as process_message hands it to the Flow Controller
PrepareSession(session_data, platform, phone_number) ==
    LET lead_data == Get(session_data, "lead_data", EmptyDict)
        authorized ==
            IF platform = "whatsapp" /\ DOMAIN lead_data # {}
               /\ ~Get(session_data, "whatsapp_authorized", FALSE)
            THEN Put(session_data, "whatsapp_authorized", TRUE) ELSE session_data
    IN IF platform = "whatsapp" /\ Truthy(phone_number)
       THEN Update(authorized,
                   [phone_number |-> phone_number,
                    lead_data |-> Put(lead_data, "phone", phone_number)])
       ELSE authorized

\* faulty count: the message is not counted
CountNothing(session_data) == session_data

CountMessage(session_data) ==
    Put(session_data, "message_count", Get(session_data, "message_count", 0) + 1)

ProcessMessage(message, platform, phone_number) ==
    \E got \in {GetOrCreateSession(store, platform, phone_number)} :
       /\ got.reset => Get(store, "reset_count", 0) < MaxResets
       /\ ~got.reset => Get(store, "message_count", 0) < MaxMessages
       /\ IF Unauthorized(got.session, platform)
          THEN /\ store' = got.saved
               /\ result' = Result("process_message", platform, phone_number,
                                   "whatsapp_unauthorized",
                                   <<"unauthorized">>, got.reset, <<>>, 0, 0)
               /\ Record(got.reset, <<>>, 0)
          ELSE \E prepared \in {PrepareSession(got.session, platform, phone_number)} :
               \E probe \in {ProcessConversationFlow(prepared, message, QuietEnv)} :
               \E env \in EnvsFor(probe) :
               \E flow \in {IF env = QuietEnv THEN probe
                            ELSE ProcessConversationFlow(prepared, message, env)} :
               /\ store' = CountMessage(flow.session)
               /\ result' = Result("process_message", platform, phone_number, "flow",
                                   flow.response,
                                   got.reset, flow.calls, flow.leads, flow.sent)
               /\ Record(got.reset, flow.calls, flow.leads)
       /\ UNCHANGED <<authEvent, inflight>>

\* faulty end: the record is cleared instead of marked
EndSessionClearing ==
    /\ IF DOMAIN store # {}
       THEN /\ store' = Update(store, [session_ended |-> TRUE, current_step |-> "ended",
                                       lead_data |-> EmptyDict, message_count |-> 0])
            /\ result' = Result("end_session", "", NoneVal, "ended", <<>>, FALSE, <<>>, 0, 0)
       ELSE /\ store' = store
            /\ result' = Result("end_session", "", NoneVal, "not_found", <<>>, FALSE, <<>>, 0, 0)
    /\ UNCHANGED <<notifications, leadStored, authEvent, inflight>>

EndSession ==
    /\ IF DOMAIN store # {}
       THEN /\ store' = Update(store, [session_ended |-> TRUE, current_step |-> "ended"])
            /\ result' = Result("end_session", "", NoneVal, "ended", <<>>, FALSE, <<>>, 0, 0)
       ELSE /\ store' = store
            /\ result' = Result("end_session", "", NoneVal, "not_found", <<>>, FALSE, <<>>, 0, 0)
    /\ UNCHANGED <<notifications, leadStored, authEvent, inflight>>

\* user_data of an authorization event: none, or the landing page's form
UserDatas == {EmptyDict, [name |-> MsgName, area |-> MsgArea, problem |-> MsgDetails]}

AuthSources == {"landing_chat", "landing_button"}

AuthPhones == {MsgPhone}

\* faulty pre-population: the provided fields are dropped and the flow left open
LandingSessionUnfilled(phone_number, source, user_data) ==
    [session_id |-> SessionId, platform |-> "whatsapp", phone_number |-> phone_number,
     current_step |-> "greeting", lead_data |-> EmptyDict, message_count |-> 0,
     flow_completed |-> FALSE, phone_submitted |-> FALSE, lawyers_notified |-> FALSE,
     whatsapp_authorized |-> TRUE, session_ended |-> FALSE, first_interaction |-> TRUE,
     authorization_source |-> source]

\* faulty landing session: it counts three messages, the gate's minimum
LandingSessionEngaged(phone_number, source, user_data) ==
    [LandingSessionUnfilled(phone_number, source, user_data) EXCEPT
        !.current_step = "completed",
        !.lead_data = [identification |-> Get(user_data, "name", <<>>),
                       area_qualification |-> Get(user_data, "area", DefaultArea),
                       case_details |-> Get(user_data, "problem", LandingDetails),
                       phone |-> phone_number,
                       confirmation |-> ConfirmationSim],
        !.message_count = MinEngagement,
        !.flow_completed = TRUE,
        !.first_interaction = FALSE]

LandingSession(phone_number, source, user_data) ==
    [session_id |-> SessionId, platform |-> "whatsapp", phone_number |-> phone_number,
     current_step |-> "completed",
     lead_data |-> [identification |-> Get(user_data, "name", <<>>),
                    area_qualification |-> Get(user_data, "area", DefaultArea),
                    case_details |-> Get(user_data, "problem", LandingDetails),
                    phone |-> phone_number,
                    confirmation |-> ConfirmationSim],
     message_count |-> 1, flow_completed |-> TRUE, phone_submitted |-> TRUE,
     lead_qualified |-> TRUE, lawyers_notified |-> FALSE, whatsapp_authorized |-> TRUE,
     session_ended |-> FALSE, first_interaction |-> FALSE, authorization_source |-> source]

AuthorizedSession(phone_number, source) ==
    [session_id |-> SessionId, platform |-> "whatsapp", phone_number |-> phone_number,
     current_step |-> "greeting", lead_data |-> EmptyDict, message_count |-> 0,
     flow_completed |-> FALSE, phone_submitted |-> FALSE, lawyers_notified |-> FALSE,
     whatsapp_authorized |-> TRUE, session_ended |-> FALSE, first_interaction |-> TRUE,
     authorization_source |-> source]

\* faulty authorization: the conversation starts again
AuthorizeStoredRestarting(session_data, source) ==
    Update(session_data, [whatsapp_authorized |-> TRUE, authorization_source |-> source,
                          current_step |-> "greeting", lead_data |-> EmptyDict,
                          message_count |-> 0])

\* the authorization of a session that is already stored
AuthorizeStored(session_data, source) ==
    Update(session_data, [whatsapp_authorized |-> TRUE, authorization_source |-> source])

HandleWhatsappAuthorization(phone_number, source, user_data) ==
    /\ IF DOMAIN user_data # {} /\ source = "landing_chat"
       THEN \E landing \in {LandingSession(phone_number, source, user_data)} :
            \E probe \in {NotifyLawyersIfQualified(landing, "whatsapp", QuietEnv)} :
            \E env \in EnvsFor(probe) :
            \E gate \in {IF env = QuietEnv THEN probe
                         ELSE NotifyLawyersIfQualified(landing, "whatsapp", env)} :
               /\ store' = gate.session
               /\ Record(TRUE, gate.calls, 0)
               /\ result' = Result("handle_whatsapp_authorization", "whatsapp",
                                   phone_number, "authorization_processed", <<>>, FALSE, gate.calls, 0, 0)
       ELSE /\ store' = IF DOMAIN store # {}
                        THEN AuthorizeStored(store, source)
                        ELSE AuthorizedSession(phone_number, source)
            /\ result' = Result("handle_whatsapp_authorization", "whatsapp",
                                phone_number, "authorization_processed", <<>>, FALSE, <<>>, 0, 0)
            /\ UNCHANGED <<notifications, leadStored>>
    /\ authEvent' = TRUE
    /\ UNCHANGED inflight

\* _handle_phone_collection, called by handle_phone_number_submission
HandlePhoneCollection(phone_message, session_data, env) ==
    LET phone_clean == Digits(phone_message)
        lead_data == Get(session_data, "lead_data", EmptyDict)
    IN IF Get(session_data, "platform", "web") = "whatsapp"
       THEN HandleLeadFinalization(session_data, env)
       ELSE IF Len(phone_clean) < MinPhoneDigits \/ Len(phone_clean) > MaxPhoneDigits
       THEN NoEffect(session_data, <<"invalid_number">>)
       ELSE HandleLeadFinalization(
                Put(session_data, "lead_data", Put(lead_data, "phone", phone_clean)), env)

SubmittedPhones == {MsgPhone, MsgShort}

HandlePhoneNumberSubmission(phone_number) ==
    \E probe \in {HandlePhoneCollection(phone_number, store, QuietEnv)} :
    \E env \in EnvsFor(probe) :
    \E done \in {IF env = QuietEnv THEN probe
                 ELSE HandlePhoneCollection(phone_number, store, env)} :
       /\ store' = IF done.leads > 0 THEN done.session ELSE store
       /\ Record(FALSE, done.calls, done.leads)
       /\ result' = Result("handle_phone_number_submission", "", phone_number, "success",
                           done.response, FALSE, done.calls, done.leads, done.sent)
       /\ UNCHANGED <<authEvent, inflight>>

\* notify_lawyers_if_qualified called on the stored session
NotifyStoredSession(platform) ==
    \E probe \in {NotifyLawyersIfQualified(store, platform, QuietEnv)} :
    \E env \in EnvsFor(probe) :
    \E gate \in {IF env = QuietEnv THEN probe
                 ELSE NotifyLawyersIfQualified(store, platform, env)} :
       /\ store' = IF gate.saved THEN gate.session ELSE store
       /\ Record(FALSE, gate.calls, 0)
       /\ result' = Result("notify_lawyers_if_qualified", platform, NoneVal,
                           gate.reply.reason,
                           <<>>, FALSE, gate.calls, 0, 0)
       /\ UNCHANGED <<authEvent, inflight>>

----------------------------------------------------------------------------
(* The orchestrator under sequential calls on one session identifier. *)

Init ==
    /\ store = EmptyDict
    /\ notifications = 0
    /\ leadStored = FALSE
    /\ result = Result("none", "", NoneVal, "", <<>>, FALSE, <<>>, 0, 0)
    /\ authEvent = FALSE
    /\ inflight = EmptyDict

Next ==
    \/ \E m \in Messages, args \in CallArgs : ProcessMessage(m, args[1], args[2])
    \/ EndSession
    \/ \E ph \in AuthPhones, src \in AuthSources, ud \in UserDatas :
            HandleWhatsappAuthorization(ph, src, ud)
    \/ \E ph \in SubmittedPhones : HandlePhoneNumberSubmission(ph)
    \/ \E p \in Platforms : NotifyStoredSession(p)

Spec == Init /\ [][Next]_vars

----------------------------------------------------------------------------
(* The web conversation alone: process_message calls of the web platform   *)
(* on one session identifier, any content, the empty message included,     *)
(* with or without a phone number argument.                                *)

WebMessages == Messages \cup {MsgEmpty, MsgJo, MsgTarde}

NextWeb == \E m \in WebMessages, ph \in PhoneArgs : ProcessMessage(m, "web", ph)

SpecWeb == Init /\ [][NextWeb]_vars

----------------------------------------------------------------------------
(* The Notification Gate alone: should_notify_lawyers applied to session   *)
(* states of every shape, for both platforms.                              *)

GateLeads ==
    {EmptyDict,
     [identification |-> MsgName, area_qualification |-> MsgArea, phone |-> MsgPhone],
     [identification |-> MsgName, area_qualification |-> MsgArea,
      case_details |-> MsgDetails, phone |-> MsgPhone, confirmation |-> ConfirmationSim]}

GateSessions ==
    [lead_data : GateLeads, message_count : {0, MinEngagement},
     current_step : {"step4_details", "step5_confirmation", "completed"},
     flow_completed : BOOLEAN, lawyers_notified : BOOLEAN]

GateResult(op, platform, reply) == [op |-> op, platform |-> platform, reply |-> reply]

InitGate ==
    /\ store \in GateSessions
    /\ notifications = 0
    /\ leadStored = FALSE
    /\ result = GateResult("none", "", [should_notify |-> FALSE, reason |-> ""])
    /\ authEvent = FALSE
    /\ inflight = EmptyDict

GateCheck(platform) ==
    /\ result' = GateResult("should_notify_lawyers", platform,
                            ShouldNotifyLawyers(store, platform))
    /\ UNCHANGED <<store, notifications, leadStored, authEvent, inflight>>

NextGate == \E p \in Platforms : GateCheck(p)

SpecGate == InitGate /\ [][NextGate]_vars

----------------------------------------------------------------------------
(* Properties. *)

Flag(session_data, k) == Get(session_data, k, FALSE)

StoredStep(session_data) == Get(session_data, "current_step", "greeting")

LeadData(session_data) == Get(session_data, "lead_data", EmptyDict)

Stored == DOMAIN store # {}

StoredTerminal == Stored /\ (Flag(store, "flow_completed") \/ Flag(store, "session_ended"))

StepOrder ==
    <<"greeting", "step1_name", "step3_area", "step4_details", "phone_collection",
      "step5_confirmation", "completed">>

IsEdge(a, b) == \E i \in 1..(Len(StepOrder) - 1) : StepOrder[i] = a /\ StepOrder[i + 1] = b

\* the step just taken was a process_message call
MessageStep == result'.op = "process_message"

\* ... of the WhatsApp platform
WhatsappStep == MessageStep /\ result'.platform = "whatsapp"

\* ... turned away by the authorization check
BlockedStep == MessageStep /\ result'.status = "whatsapp_unauthorized"

\* ... whose answer the Validator rejected
RejectedStep == MessageStep /\ result'.response[1] = "error"

----------------------------------------------------------------------------
\* C1: once the stored session has lawyers_notified = true, no later call of
\* process_message, handle_phone_number_submission or
\* notify_lawyers_if_qualified invokes the notification dispatcher, and the
\* count of dispatcher calls of the session lifetime stays as it was; so a
\* finalization that runs again after a successful dispatch adds no call.
C1_NoDispatchOnceNotified ==
    [][(/\ Flag(store, "lawyers_notified")
        /\ result'.op \in {"process_message", "handle_phone_number_submission",
                           "notify_lawyers_if_qualified"})
       => /\ result'.calls = <<>>
          /\ ~result'.reset => notifications' = notifications]_vars

\* the finalization procedure ran again on a notified session (it stored the
\* lead) and the dispatcher has been called once in the session's lifetime
C1_Witness ==
    /\ result.op = "handle_phone_number_submission"
    /\ result.leads = 1
    /\ result.calls = <<>>
    /\ Flag(store, "lawyers_notified")
    /\ notifications = 1

----------------------------------------------------------------------------
\* C2: for every session state with lawyers_notified = true and for both
\* platforms the gate answers should_notify = false, reason already_notified,
\* and nothing else (no score, no missing criteria: nothing was evaluated),
\* whatever lead_data, message_count, current_step and flow_completed are.
C2_GateAnswersAlreadyNotified ==
    (result.op = "should_notify_lawyers" /\ Flag(store, "lawyers_notified"))
    => result.reply = [should_notify |-> FALSE, reason |-> "already_notified"]

\* the gate was asked about a notified session that meets the criteria of both
\* platforms
C2_Witness ==
    /\ result.op = "should_notify_lawyers"
    /\ result.platform = "whatsapp"
    /\ Flag(store, "lawyers_notified")
    /\ WebCriteriaMet(store)
    /\ WhatsappCriteriaMet(store)
    /\ result.reply.reason = "already_notified"

----------------------------------------------------------------------------
\* what every process_message call on a terminal stored record does
ResetFrame ==
    /\ result'.reset
    /\ ~store'.flow_completed
    /\ ~store'.session_ended
    /\ ~store'.lawyers_notified
    /\ store'.reset_count = Get(store, "reset_count", 0) + 1

\* C3 (as amended): a process_message call on a stored record with
\* flow_completed or session_ended replaces the record: flow_completed,
\* session_ended and lawyers_notified are false and reset_count is the old
\* one plus 1.  If the call is turned away as unauthorized WhatsApp the new
\* record stays at greeting with empty lead_data; otherwise current_step is
\* step1_name and lead_data is empty, except that a WhatsApp call that
\* carries a phone number leaves that number in lead_data.phone.
C3_TerminalRecordIsReplaced ==
    [][(MessageStep /\ StoredTerminal)
       => /\ ResetFrame
          /\ IF result'.status = "whatsapp_unauthorized"
             THEN /\ store'.current_step = "greeting"
                  /\ store'.lead_data = EmptyDict
             ELSE /\ store'.current_step = "step1_name"
                  /\ store'.lead_data =
                        IF result'.platform = "whatsapp" /\ Truthy(result'.phone_number)
                        THEN [phone |-> result'.phone_number]
                        ELSE EmptyDict]_vars

\* C3 as stated: after the call lead_data is empty and current_step is
\* step1_name, whatever the call
C3_AsStated ==
    [][(MessageStep /\ StoredTerminal)
       => /\ ResetFrame
          /\ store'.current_step = "step1_name"
          /\ store'.lead_data = EmptyDict]_vars

\* a WhatsApp message replaced a terminal record and the new record already
\* holds the sender's number in lead_data
C3_Witness ==
    /\ result.op = "process_message"
    /\ result.reset
    /\ result.platform = "whatsapp"
    /\ result.status = "flow"
    /\ store.reset_count = 1
    /\ store.current_step = "step1_name"
    /\ store.lead_data = [phone |-> MsgPhone]

----------------------------------------------------------------------------
\* C4 (as amended): in every stored state, current_step = completed implies
\* flow_completed, and flow_completed implies that current_step is completed
\* or that the session was ended (current_step = ended, session_ended true):
\* end_session leaves the flag of a completed session set.
C4_CompletedFlag ==
    Stored =>
        /\ StoredStep(store) = "completed" => Flag(store, "flow_completed")
        /\ Flag(store, "flow_completed")
           => \/ StoredStep(store) = "completed"
              \/ StoredStep(store) = "ended" /\ Flag(store, "session_ended")

\* C4 as stated: flow_completed if and only if current_step = completed
C4_AsStated ==
    Stored => (Flag(store, "flow_completed") <=> StoredStep(store) = "completed")

\* end_session was called on a completed session
C4_Witness ==
    /\ result.op = "end_session"
    /\ Stored
    /\ Flag(store, "flow_completed")
    /\ StoredStep(store) = "ended"

----------------------------------------------------------------------------
\* C5 (as amended): every change of current_step made by a process_message
\* call that does not replace the record follows an edge of the step table,
\* greeting, step1_name, step3_area, step4_details, phone_collection,
\* step5_confirmation, completed in that order; the only other changes are
\* a reset (to greeting or step1_name), end_session (to ended, from any
\* step) and a landing-page authorization (to completed, from any step).
C5_StepChanges ==
    [][StoredStep(store') # StoredStep(store)
       => \/ MessageStep /\ ~result'.reset
             /\ IsEdge(StoredStep(store), StoredStep(store'))
          \/ MessageStep /\ result'.reset
             /\ StoredStep(store') \in {"greeting", "step1_name"}
          \/ result'.op = "end_session" /\ StoredStep(store') = "ended"
          \/ result'.op = "handle_whatsapp_authorization"
             /\ StoredStep(store') = "completed"]_vars

\* C5 as stated: on a session never reset every change of current_step
\* follows an edge of the step table
C5_AsStated ==
    [][("reset_count" \notin DOMAIN store' /\ StoredStep(store') # StoredStep(store))
       => IsEdge(StoredStep(store), StoredStep(store'))]_vars

\* a session never reset walked the table up to the phone step
C5_Witness ==
    /\ result.op = "process_message"
    /\ result.response = Question("phone_collection")
    /\ StoredStep(store) = "phone_collection"
    /\ "reset_count" \notin DOMAIN store
    /\ {"identification", "area_qualification", "case_details"} \subseteq DOMAIN LeadData(store)

----------------------------------------------------------------------------
\* C6: on a fresh web session that receives only web messages, the opening
\* message, whatever its content, moves current_step from greeting to
\* step1_name; every answer the Validator does not reject moves it one edge
\* further, in table order; the dispatcher is called in no call but the one
\* that takes the accepted confirmation; that call reaches completed, sets
\* flow_completed and calls the dispatcher exactly once, with the stored
\* area answer as category, so that the session's lifetime counts one call.
C6_WebFlowCompletes ==
    [][(MessageStep /\ ~result'.reset /\ "reset_count" \notin DOMAIN store)
       => /\ ~Stored => store'.current_step = "step1_name"
          /\ (StoredStep(store) # "completed" /\ result'.response[1] # "error")
             => IsEdge(StoredStep(store), StoredStep(store'))
          /\ result'.response[1] = "error" => StoredStep(store') = StoredStep(store)
          /\ result'.calls # <<>> => StoredStep(store) = "step5_confirmation"
          /\ (StoredStep(store) = "step5_confirmation"
              /\ StoredStep(store') = "completed")
             => /\ store'.flow_completed
                /\ Len(result'.calls) = 1
                /\ result'.calls[1].category = store'.lead_data.area_qualification
                /\ notifications' = 1]_vars

\* six messages took a fresh web session to completed with one dispatcher
\* call for the area answered
C6_Witness ==
    /\ result.op = "process_message"
    /\ StoredStep(store) = "completed"
    /\ Flag(store, "flow_completed")
    /\ "reset_count" \notin DOMAIN store
    /\ store.message_count = 6
    /\ notifications = 1
    /\ Len(result.calls) = 1
    /\ result.calls[1].category = MsgArea
    /\ store.lead_data.area_qualification = MsgArea

----------------------------------------------------------------------------
\* what a rejected answer leaves alone in every case
RejectionFrame ==
    /\ result'.response[2] \in {ErrGeneric, ErrName, ErrArea, ErrDetails, ErrHorario,
                                ErrPhone, ErrConfirmation}
    /\ StoredStep(store') = StoredStep(store)
    /\ Flag(store', "flow_completed") = Flag(store, "flow_completed")
    /\ Flag(store', "lawyers_notified") = Flag(store, "lawyers_notified")

\* C7 (as amended): when the Validator rejects the answer, process_message
\* returns the Validator's error text and the stored current_step,
\* flow_completed, lawyers_notified and every lead_data field but phone are
\* as before; a WhatsApp message that carries a phone number writes that
\* number to lead_data.phone before the answer is validated, and
\* message_count is incremented.
C7_RejectionLeavesAnswers ==
    [][RejectedStep
       => /\ RejectionFrame
          /\ store'.message_count = Get(store, "message_count", 0) + 1
          /\ \A f \in (DOMAIN LeadData(store') \cup DOMAIN LeadData(store)) \ {"phone"} :
                /\ f \in DOMAIN LeadData(store')
                /\ f \in DOMAIN LeadData(store)
                /\ LeadData(store')[f] = LeadData(store)[f]
          /\ IF result'.platform = "whatsapp" /\ Truthy(result'.phone_number)
             THEN LeadData(store').phone = result'.phone_number
             ELSE /\ ("phone" \in DOMAIN LeadData(store')) = ("phone" \in DOMAIN LeadData(store))
                  /\ Get(LeadData(store'), "phone", <<>>) = Get(LeadData(store), "phone", <<>>)]_vars

\* C7 as stated: every lead_data field is the same as before the message
C7_AsStated ==
    [][RejectedStep => (RejectionFrame /\ LeadData(store') = LeadData(store))]_vars

\* a WhatsApp message was rejected at the name step of a session begun on the
\* web, and the stored lead_data holds the sender's number and nothing else
C7_Witness ==
    /\ result.op = "process_message"
    /\ result.platform = "whatsapp"
    /\ result.response = <<"error", ErrName>>
    /\ Get(store, "platform", "") = "web"
    /\ StoredStep(store) = "step1_name"
    /\ LeadData(store) = [phone |-> MsgPhone]
    /\ ~leadStored

----------------------------------------------------------------------------
\* C8 (as amended): a WhatsApp message engages the flow only if the stored
\* record has whatsapp_authorized = true or is a live record with lead data;
\* whatsapp_authorized becomes true only by an authorization event or by a
\* WhatsApp message that finds lead data in a live record (written by web
\* calls or a phone submission on the same identifier), and from then on no
\* authorization event is needed.  A message that does not engage is answered
\* with the redirect and leaves current_step where it was (greeting for a
\* record it created or replaced) and lead_data empty.
C8_EngagesOnlyIfAuthorized ==
    [][/\ (WhatsappStep /\ result'.status = "flow")
          => \/ Flag(store, "whatsapp_authorized")
             \/ ~result'.reset /\ DOMAIN LeadData(store) # {}
       /\ (Flag(store', "whatsapp_authorized") /\ ~Flag(store, "whatsapp_authorized"))
          => \/ result'.op = "handle_whatsapp_authorization"
             \/ WhatsappStep /\ ~result'.reset /\ DOMAIN LeadData(store) # {}
       /\ (WhatsappStep /\ result'.status # "flow")
          => /\ result'.response = <<"unauthorized">>
             /\ StoredStep(store') = IF result'.reset THEN "greeting" ELSE StoredStep(store)
             /\ LeadData(store') = EmptyDict]_vars

\* C8 as stated: without an authorization event before it, every WhatsApp
\* message is answered with the redirect and engages nothing: current_step
\* and lead_data stay as they were
C8_AsStated ==
    [][(WhatsappStep /\ ~authEvent)
       => /\ result'.status = "whatsapp_unauthorized"
          /\ result'.response = <<"unauthorized">>
          /\ ~result'.reset => StoredStep(store') = StoredStep(store)
          /\ ~result'.reset => LeadData(store') = LeadData(store)]_vars

\* a WhatsApp message engaged the flow although no authorization event was
\* ever processed
C8_Witness ==
    /\ result.op = "process_message"
    /\ result.platform = "whatsapp"
    /\ result.status = "flow"
    /\ ~authEvent
    /\ Flag(store, "whatsapp_authorized")

----------------------------------------------------------------------------
\* C9 (as amended): a WhatsApp message with no authorization and no lead
\* data is answered with the redirect; a live stored record is left as it
\* was, but for an unseen identifier a new record is saved, and a terminal
\* record is replaced by its reset (reset_count + 1): records at greeting,
\* with empty lead_data, message_count 0 and whatsapp_authorized false.
C9_BlockedMessageStore ==
    [][BlockedStep
       => /\ result'.response = <<"unauthorized">>
          /\ IF Stored /\ ~StoredTerminal
             THEN store' = store
             ELSE /\ store' # store
                  /\ store'.platform = "whatsapp"
                  /\ store'.current_step = "greeting"
                  /\ store'.lead_data = EmptyDict
                  /\ store'.message_count = 0
                  /\ ~store'.whatsapp_authorized
                  /\ Stored => store'.reset_count = Get(store, "reset_count", 0) + 1]_vars

\* C9 as stated: the Session Store is left as it was
C9_AsStated == [][BlockedStep => store' = store]_vars

\* a turned-away WhatsApp message left a record for an identifier that had
\* none
C9_Witness ==
    /\ result.op = "process_message"
    /\ result.status = "whatsapp_unauthorized"
    /\ ~result.reset
    /\ Stored
    /\ store.platform = "whatsapp"
    /\ store.message_count = 0
    /\ ~store.whatsapp_authorized
    /\ "reset_count" \notin DOMAIN store
    /\ ~authEvent

----------------------------------------------------------------------------
\* what the replacement of a terminal record by a WhatsApp message carries
CarriedFlags ==
    /\ store'.whatsapp_authorized = Flag(store, "whatsapp_authorized")
    /\ store'.authorization_source = Get(store, "authorization_source", "")
    /\ Flag(store, "whatsapp_authorized") => result'.status = "flow"

----------------------------------------------------------------------------
(* The phone_collection step alone: one Flow Controller call on a session  *)
(* that waits at phone_collection, for both platforms over the same prior  *)
(* lead_data, with and without a phone number on the session.              *)

MsgPhoneFormatted ==
    <<"(", "2", "1", ")", " ", "9", "1", "2", "3", "4", "-", "5", "6", "7", "8">>

MsgPhoneFormattedDigits == <<"2", "1", "9", "1", "2", "3", "4", "5", "6", "7", "8">>

MsgTardePadded == <<" ", "t", "a", "r", "d", "e", " ">>

PhoneStepMessages ==
    {MsgEmpty, MsgName, MsgArea, MsgDetails, MsgSim, MsgPhone, MsgPhoneFormatted,
     MsgTarde, MsgTardePadded}

AnsweredLead ==
    [identification |-> MsgName, area_qualification |-> MsgArea, case_details |-> MsgDetails]

PhoneStepLeads ==
    {AnsweredLead,
     Put(AnsweredLead, "phone", MsgPhone),
     Put(AnsweredLead, "preferred_contact_time", MsgTarde)}

\* a session that answered name, area and details
PhoneStepSession(platform, lead_data, phone_number) ==
    LET waiting == Update(NewSession(platform),
                          [current_step |-> "phone_collection", lead_data |-> lead_data,
                           first_interaction |-> FALSE, message_count |-> 4,
                           whatsapp_authorized |-> (platform = "whatsapp")])
    IN IF Truthy(phone_number) THEN Put(waiting, "phone_number", phone_number)
       ELSE waiting

FlowResult(op, message, response) ==
    [op |-> op, message |-> message, response |-> response]

InitPhoneStep ==
    /\ \E p \in Platforms, ld \in PhoneStepLeads, ph \in PhoneArgs :
            store = PhoneStepSession(p, ld, ph)
    /\ notifications = 0
    /\ leadStored = FALSE
    /\ result = FlowResult("none", <<>>, <<>>)
    /\ authEvent = FALSE
    /\ inflight = EmptyDict

AnswerPhoneStep(message) ==
    /\ StoredStep(store) = "phone_collection"
    /\ \E flow \in {ProcessConversationFlow(store, message, QuietEnv)} :
          /\ store' = flow.session
          /\ result' = FlowResult("_process_conversation_flow", message, flow.response)
    /\ UNCHANGED <<notifications, leadStored, authEvent, inflight>>

NextPhoneStep == \E m \in PhoneStepMessages : AnswerPhoneStep(m)

SpecPhoneStep == InitPhoneStep /\ [][NextPhoneStep]_vars

\* the fields of lead_data other than those in touched are as before
OtherAnswersKept(touched) ==
    /\ DOMAIN LeadData(store') \ touched = DOMAIN LeadData(store) \ touched
    /\ \A f \in DOMAIN LeadData(store) \ touched : LeadData(store')[f] = LeadData(store)[f]

\* C11: an accepted answer at phone_collection moves either session to
\* step5_confirmation.  On a whatsapp session the answer as given (only its
\* surrounding whitespace stripped, never reduced to digits) is written to
\* preferred_contact_time and never to phone: phone takes the session's own
\* phone_number if it has one and is otherwise left as it was.  On a web
\* session with the same prior lead_data the digits of the answer are
\* written to phone and preferred_contact_time is not touched.
C11_PhoneStepByChannel ==
    [][(/\ result'.op = "_process_conversation_flow"
        /\ result'.response = Question("step5_confirmation"))
       => /\ store'.current_step = "step5_confirmation"
          /\ IF store.platform = "whatsapp"
             THEN /\ Get(LeadData(store'), "preferred_contact_time", NoneVal)
                        = Strip(result'.message)
                  /\ result'.message = MsgPhoneFormatted
                     => Get(LeadData(store'), "preferred_contact_time", NoneVal)
                           = MsgPhoneFormatted
                  /\ result'.message = MsgTardePadded
                     => Get(LeadData(store'), "preferred_contact_time", NoneVal) = MsgTarde
                  /\ IF Truthy(Get(store, "phone_number", <<>>))
                     THEN Get(LeadData(store'), "phone", NoneVal) = store.phone_number
                     ELSE OtherAnswersKept({"preferred_contact_time"})
                  /\ OtherAnswersKept({"preferred_contact_time", "phone"})
             ELSE /\ Get(LeadData(store'), "phone", NoneVal) = Digits(result'.message)
                  /\ result'.message = MsgPhoneFormatted
                     => Get(LeadData(store'), "phone", NoneVal) = MsgPhoneFormattedDigits
                  /\ OtherAnswersKept({"phone"})]_vars

\* a whatsapp session took a formatted number as its contact time, kept as
\* typed, while phone holds the session's own number
C11_Witness ==
    /\ result.op = "_process_conversation_flow"
    /\ result.message = MsgPhoneFormatted
    /\ store.platform = "whatsapp"
    /\ store.current_step = "step5_confirmation"
    /\ store.lead_data = [identification |-> MsgName, area_qualification |-> MsgArea,
                          case_details |-> MsgDetails,
                          preferred_contact_time |-> MsgPhoneFormatted,
                          phone |-> MsgPhone]

----------------------------------------------------------------------------
(* handle_whatsapp_authorization alone, with the arguments of the call and *)
(* the reply of the Notification Gate (notification_result) on record.     *)

NameOnly == [name |-> MsgName]

AuthUserDatas == UserDatas \cup {NameOnly}

AuthSourceArgs == AuthSources \cup {"unknown"}

AuthPhoneArgs == {<<>>, MsgPhone}

\* the gate was not evaluated by the call
NoGate == [notified |-> FALSE, reason |-> "not_evaluated"]

AuthResult(phone_number, source, user_data, gate) ==
    [op |-> "handle_whatsapp_authorization", status |-> "authorization_processed",
     phone_number |-> phone_number, source |-> source, user_data |-> user_data,
     pre_populated |-> (DOMAIN user_data # {} /\ source = "landing_chat"),
     gate |-> gate]

InitAuth ==
    /\ store \in {EmptyDict, PhoneStepSession("web", AnsweredLead, NoneVal),
                  PhoneStepSession("whatsapp", AnsweredLead, MsgPhone)}
    /\ notifications = 0
    /\ leadStored = FALSE
    /\ result = [AuthResult(<<>>, "unknown", EmptyDict, NoGate) EXCEPT !.op = "none"]
    /\ authEvent = FALSE
    /\ inflight = EmptyDict

Authorize(phone_number, source, user_data) ==
    /\ IF DOMAIN user_data # {} /\ source = "landing_chat"
       THEN \E env \in Envs :
            \E gate \in {NotifyLawyersIfQualified(
                             LandingSession(phone_number, source, user_data),
                             "whatsapp", env)} :
               /\ store' = gate.session
               /\ Record(TRUE, gate.calls, 0)
               /\ result' = AuthResult(phone_number, source, user_data, gate.reply)
       ELSE /\ store' = IF DOMAIN store # {}
                        THEN AuthorizeStored(store, source)
                        ELSE AuthorizedSession(phone_number, source)
            /\ result' = AuthResult(phone_number, source, user_data, NoGate)
            /\ UNCHANGED <<notifications, leadStored>>
    /\ authEvent' = TRUE
    /\ UNCHANGED inflight

NextAuth ==
    \E ph \in AuthPhoneArgs, src \in AuthSourceArgs, ud \in AuthUserDatas :
        Authorize(ph, src, ud)

SpecAuth == InitAuth /\ [][NextAuth]_vars

\* C12: a handle_whatsapp_authorization call with non-empty user_data and
\* source landing_chat stores a session with current_step = completed,
\* flow_completed = true and whatsapp_authorized = true whose lead_data holds
\* the provided name, area and problem (the fixed defaults for fields not
\* provided), the call's phone number and the confirmation "sim"; the
\* Notification Gate has been evaluated on that session for the whatsapp
\* platform when the call returns.
C12_LandingAuthorization ==
    [][(/\ result'.op = "handle_whatsapp_authorization"
        /\ DOMAIN result'.user_data # {}
        /\ result'.source = "landing_chat")
       => /\ DOMAIN store' # {}
          /\ Get(store', "current_step", "") = "completed"
          /\ Flag(store', "flow_completed")
          /\ Flag(store', "whatsapp_authorized")
          /\ LeadData(store')
               = [identification |-> Get(result'.user_data, "name", <<>>),
                  area_qualification |-> Get(result'.user_data, "area", DefaultArea),
                  case_details |-> Get(result'.user_data, "problem", LandingDetails),
                  phone |-> result'.phone_number,
                  confirmation |-> ConfirmationSim]
          /\ result'.user_data = [name |-> MsgName, area |-> MsgArea, problem |-> MsgDetails]
             => /\ LeadData(store').identification = MsgName
                /\ LeadData(store').area_qualification = MsgArea
                /\ LeadData(store').case_details = MsgDetails
          /\ result'.status = "authorization_processed"
          /\ result'.pre_populated
          /\ result'.gate # NoGate
          /\ result'.gate.reason = ShouldNotifyLawyers(store', "whatsapp").reason]_vars

\* a landing-page authorization with all three fields replaced a web session
\* that was waiting at phone_collection
C12_Witness ==
    /\ result.op = "handle_whatsapp_authorization"
    /\ result.source = "landing_chat"
    /\ result.user_data = [name |-> MsgName, area |-> MsgArea, problem |-> MsgDetails]
    /\ result.phone_number = MsgPhone
    /\ result.gate.reason = "not_qualified_yet"
    /\ store.platform = "whatsapp"
    /\ store.current_step = "completed"
    /\ store.flow_completed
    /\ store.lead_data.identification = MsgName
    /\ store.lead_data.phone = MsgPhone

----------------------------------------------------------------------------
\* C13: end_session on a stored session answers status ended and marks the
\* record session_ended = true with current_step = ended, every other field
\* of the record (lead_data, message_count, lawyers_notified and
\* whatsapp_authorized among them) staying as it was; on an identifier with
\* no stored session it answers not_found and no record is created.
C13_EndSessionFrame ==
    [][result'.op = "end_session"
       => IF Stored
          THEN /\ result'.status = "ended"
               /\ Flag(store', "session_ended")
               /\ StoredStep(store') = "ended"
               /\ DOMAIN store' = DOMAIN store \cup {"session_ended", "current_step"}
               /\ \A k \in DOMAIN store \ {"session_ended", "current_step"} :
                     store'[k] = store[k]
               /\ LeadData(store') = LeadData(store)
               /\ Get(store', "message_count", 0) = Get(store, "message_count", 0)
               /\ Flag(store', "lawyers_notified") = Flag(store, "lawyers_notified")
               /\ Flag(store', "whatsapp_authorized") = Flag(store, "whatsapp_authorized")
          ELSE /\ result'.status = "not_found"
               /\ DOMAIN store' = {}]_vars

\* a notified, authorized session with answers on record was ended
C13_Witness ==
    /\ result.op = "end_session"
    /\ result.status = "ended"
    /\ Flag(store, "session_ended")
    /\ StoredStep(store) = "ended"
    /\ Flag(store, "lawyers_notified")
    /\ Flag(store, "whatsapp_authorized")
    /\ "identification" \in DOMAIN LeadData(store)
    /\ Get(store, "message_count", 0) >= 2

----------------------------------------------------------------------------
(* The public entry points with failing collaborators.  One collaborator   *)
(* call of an operation call may raise; fault names which.  result holds   *)
(* how the call ended: raised is TRUE when an exception left the entry     *)
(* point, reply is the returned dict (its text fields and status).         *)

\* str(e) of the exception raised by the collaborator call at site
FailureText(site) == <<"exception", site>>

\* Session Store calls of process_message, and the Lead Store append
ProcessFaults ==
    {"none", "get", "put_session", "put_authorized", "put_flow", "append", "put_count"}

\* Session Store calls of the other entry points
StoreFaults == {"none", "get", "put"}

FaultSites == (ProcessFaults \cup StoreFaults) \ {"none"}

\* the dispatcher and the messaging client may also raise
FailEnvs == [notify : NotifyOutcomes \cup {"raise"}, send : SendOutcomes \cup {"raise"}]

FailEnvsFor(probe) == IF probe.calls = <<>> /\ probe.leads = 0 THEN {QuietEnv} ELSE FailEnvs

FailCallArgs == {<<"web", NoneVal>>, <<"whatsapp", MsgPhone>>}

\* faulty handler: the exception leaves the entry point
ExceptReraise(op, reply) == [op |-> op, raised |-> TRUE, reply |-> reply]

\* "except Exception as e: return {...}" of an entry point, and its plain return
ExceptReturn(op, reply) == [op |-> op, raised |-> FALSE, reply |-> reply]

Return(op, reply) == [op |-> op, raised |-> FALSE, reply |-> reply]

ProcessMessageError(platform, e) ==
    [response_type |-> "orchestration_error", platform |-> platform,
     session_id |-> SessionId, response |-> <<"greeting">>, error |-> e]

ProcessMessageReply(response_type, platform, response) ==
    [response_type |-> response_type, platform |-> platform, session_id |-> SessionId,
     response |-> response]

EndSessionError(e) ==
    [status |-> "error", session_id |-> SessionId, error |-> e,
     message |-> <<"Erro ao encerrar sessao">>]

AuthorizationError(e) == [status |-> "authorization_error", error |-> e]

ContextError(e) == [exists |-> FALSE, error |-> e]

\* the session in memory when the Flow Controller makes its first save
FirstFlowSave(session_data, message) ==
    LET platform == Get(session_data, "platform", "web")
        current_step == Get(session_data, "current_step", "greeting")
        lead_data == Get(session_data, "lead_data", EmptyDict)
    IN IF ~Get(session_data, "first_interaction", FALSE)
          /\ current_step = "step5_confirmation"
       THEN Completed(Put(session_data, "lead_data",
                          Put(lead_data, FlowSteps(platform)[current_step].field,
                              Strip(message))))
       ELSE ProcessConversationFlow(session_data, message, QuietEnv).session

\* the messages sent while collaborators fail
FailMessages == {MsgName, MsgSim}

\* a session that answered the phone step and waits for the confirmation
ConfirmingSession(platform, phone_number) ==
    CountMessage(ProcessConversationFlow(PhoneStepSession(platform, AnsweredLead, phone_number),
                                         MsgPhone, QuietEnv).session)

InitFail ==
    /\ store \in {EmptyDict, ConfirmingSession("web", NoneVal),
                  ConfirmingSession("whatsapp", MsgPhone)}
    /\ notifications = 0
    /\ leadStored = FALSE
    /\ result = Return("none", EmptyDict)
    /\ authEvent = FALSE
    /\ inflight = EmptyDict

ProcessMessageFailing(message, platform, phone_number, fault) ==
    /\ UNCHANGED <<authEvent, inflight>>
    /\ IF fault = "get"
       THEN /\ store' = store
            /\ result' = ExceptReturn("process_message",
                                      ProcessMessageError(platform, FailureText(fault)))
            /\ UNCHANGED <<notifications, leadStored>>
       ELSE
       \E got \in {GetOrCreateSession(store, platform, phone_number)} :
       /\ got.reset => Get(store, "reset_count", 0) < MaxResets
       /\ ~got.reset => Get(store, "message_count", 0) < MaxMessages
       /\ IF fault = "put_session" /\ got.saved # store
          THEN /\ store' = store
               /\ result' = ExceptReturn("process_message",
                                         ProcessMessageError(platform, FailureText(fault)))
               /\ UNCHANGED <<notifications, leadStored>>
          ELSE IF Unauthorized(got.session, platform)
          THEN /\ store' = got.saved
               /\ result' = Return("process_message",
                                   ProcessMessageReply("whatsapp_unauthorized", platform,
                                                       <<"unauthorized">>))
               /\ Record(got.reset, <<>>, 0)
          ELSE
          \E needs_save \in {/\ platform = "whatsapp"
                             /\ DOMAIN Get(got.session, "lead_data", EmptyDict) # {}
                             /\ ~Get(got.session, "whatsapp_authorized", FALSE)} :
          \E authorized \in {IF needs_save
                             THEN Put(got.session, "whatsapp_authorized", TRUE)
                             ELSE got.saved} :
          IF fault = "put_authorized" /\ needs_save
          THEN /\ store' = got.saved
               /\ result' = ExceptReturn("process_message",
                                         ProcessMessageError(platform, FailureText(fault)))
               /\ Record(got.reset, <<>>, 0)
          ELSE
          \E prepared \in {PrepareSession(got.session, platform, phone_number)} :
          \E probe \in {ProcessConversationFlow(prepared, message, QuietEnv)} :
          IF fault = "put_flow" /\ probe.session # prepared
          THEN \* caught by the Flow Controller, which answers with the greeting
               /\ store' = CountMessage(FirstFlowSave(prepared, message))
               /\ result' = Return("process_message",
                                   ProcessMessageReply("flow", platform, <<"greeting">>))
               /\ Record(got.reset, <<>>, 0)
          ELSE
          \E env \in FailEnvsFor(probe) :
          \E flow \in {IF env = QuietEnv THEN probe
                       ELSE ProcessConversationFlow(prepared, message, env)} :
          \E appended \in {IF fault = "append" THEN 0 ELSE flow.leads} :
             /\ Record(got.reset, flow.calls, appended)
             /\ IF fault = "put_count"
                THEN /\ store' = IF flow.session # prepared THEN flow.session
                                 ELSE authorized
                     /\ result' = ExceptReturn("process_message",
                                               ProcessMessageError(platform,
                                                                   FailureText(fault)))
                ELSE /\ store' = CountMessage(flow.session)
                     /\ result' = Return("process_message",
                                         ProcessMessageReply("flow", platform,
                                                             flow.response))

EndSessionFailing(fault) ==
    /\ IF fault = "get" \/ (fault = "put" /\ DOMAIN store # {})
       THEN /\ store' = store
            /\ result' = ExceptReturn("end_session", EndSessionError(FailureText(fault)))
       ELSE IF DOMAIN store # {}
       THEN /\ store' = Update(store, [session_ended |-> TRUE, current_step |-> "ended"])
            /\ result' = Return("end_session",
                                [status |-> "ended", session_id |-> SessionId,
                                 message |-> <<"Sessao encerrada com sucesso">>])
       ELSE /\ store' = store
            /\ result' = Return("end_session",
                                [status |-> "not_found", session_id |-> SessionId,
                                 message |-> <<"Sessao nao encontrada">>])
    /\ UNCHANGED <<notifications, leadStored, authEvent, inflight>>

AuthorizationFailing(phone_number, source, user_data, fault) ==
    LET landing == DOMAIN user_data # {} /\ source = "landing_chat"
        processed == [status |-> "authorization_processed", session_id |-> SessionId,
                      phone_number |-> phone_number, source |-> source,
                      whatsapp_authorized |-> TRUE, pre_populated |-> landing]
    IN IF fault = "put" \/ (fault = "get" /\ ~landing)
       THEN /\ store' = store
            /\ result' = ExceptReturn("handle_whatsapp_authorization",
                                      AuthorizationError(FailureText(fault)))
            /\ UNCHANGED <<notifications, leadStored, authEvent, inflight>>
       ELSE IF landing
       THEN \E env \in FailEnvs :
            \E gate \in {NotifyLawyersIfQualified(
                             LandingSession(phone_number, source, user_data),
                             "whatsapp", env)} :
               /\ store' = gate.session
               /\ Record(TRUE, gate.calls, 0)
               /\ result' = Return("handle_whatsapp_authorization", processed)
               /\ authEvent' = TRUE
               /\ UNCHANGED inflight
       ELSE /\ store' = IF DOMAIN store # {}
                        THEN AuthorizeStored(store, source)
                        ELSE AuthorizedSession(phone_number, source)
            /\ result' = Return("handle_whatsapp_authorization", processed)
            /\ authEvent' = TRUE
            /\ UNCHANGED inflight
            /\ UNCHANGED <<notifications, leadStored>>

GetSessionContext(fault) ==
    /\ result' =
          IF fault = "get"
          THEN ExceptReturn("get_session_context", ContextError(FailureText(fault)))
          ELSE IF DOMAIN store = {}
          THEN Return("get_session_context", [exists |-> FALSE])
          ELSE Return("get_session_context",
                      [exists |-> TRUE, session_id |-> SessionId,
                       platform |-> Get(store, "platform", "unknown"),
                       current_step |-> Get(store, "current_step", NoneVal),
                       flow_completed |-> Get(store, "flow_completed", FALSE),
                       lawyers_notified |-> Get(store, "lawyers_notified", FALSE),
                       message_count |-> Get(store, "message_count", 0),
                       qualification_score |->
                           CalculateQualificationScore(
                               Get(store, "lead_data", EmptyDict),
                               Get(store, "platform", "web"))])
    /\ UNCHANGED <<store, notifications, leadStored, authEvent, inflight>>

NextFail ==
    \/ \E m \in FailMessages, a \in FailCallArgs, f \in ProcessFaults :
          ProcessMessageFailing(m, a[1], a[2], f)
    \/ \E f \in StoreFaults : EndSessionFailing(f)
    \/ \E src \in AuthSources, ud \in UserDatas, f \in StoreFaults :
          AuthorizationFailing(MsgPhone, src, ud, f)
    \/ \E f \in {"none", "get"} : GetSessionContext(f)

SpecFail == InitFail /\ [][NextFail]_vars

\* C14: whichever collaborator call fails (Session Store get or put, the
\* notification dispatcher, the Lead Store append, the outbound send) and
\* wherever in the operation, process_message, end_session,
\* handle_whatsapp_authorization and get_session_context end by returning a
\* result record (one that names its outcome in response_type, status or
\* exists); no exception leaves the entry point.
C14_EntryPointsReturn ==
    result.op # "none"
    => /\ ~result.raised
       /\ DOMAIN result.reply \cap {"response_type", "status", "exists"} # {}

\* process_message returned its error record after the last save of the
\* session failed, in the call that completed the flow
C14_Witness ==
    /\ result.op = "process_message"
    /\ ~result.raised
    /\ result.reply.response_type = "orchestration_error"
    /\ "error" \in DOMAIN result.reply
    /\ result.reply.error = FailureText("put_count")
    /\ StoredStep(store) = "completed"

\* the fields of a returned dict that hold text
TextFields == {"response", "error", "message"}

\* C15: when a collaborator call fails inside process_message, end_session,
\* handle_whatsapp_authorization or get_session_context, no field of the
\* returned record carries the failure's text.
C15_AsStated ==
    result.op # "none"
    => \A k \in DOMAIN result.reply \cap TextFields :
          result.reply[k] \notin {FailureText(site) : site \in FaultSites}

----------------------------------------------------------------------------
(* Interleaved process_message calls on one session identifier.  A call    *)
(* suspends at each collaborator call; here it takes two steps: LoadCall   *)
(* (_get_or_create_session, line 1028) and FinishCall (the rest, on the    *)
(* copy it loaded; the last save wins).  serial records that no two calls  *)
(* have been in flight together so far.                                    *)

CallIds == {"a", "b"}

\* messages counted on a session before no further call is started
MaxRaceMessages == 7

RaceMessages == {MsgName, MsgSim}

RaceResult(call, serial, loaded_step, response, calls) ==
    [op |-> "process_message", call |-> call, serial |-> serial,
     loaded_step |-> loaded_step, response |-> response, calls |-> calls]

InitRace ==
    /\ store \in {EmptyDict, ConfirmingSession("web", NoneVal),
                  ConfirmingSession("whatsapp", MsgPhone)}
    /\ notifications = 0
    /\ leadStored = FALSE
    /\ result = [RaceResult("", TRUE, "", <<>>, <<>>) EXCEPT !.op = "none"]
    /\ authEvent = FALSE
    /\ inflight = EmptyDict

LoadCall(c, message, platform, phone_number) ==
    /\ c \notin DOMAIN inflight
    /\ \E got \in {GetOrCreateSession(store, platform, phone_number)} :
          /\ got.reset => Get(store, "reset_count", 0) < MaxResets
          /\ ~got.reset => Get(store, "message_count", 0) < MaxRaceMessages
          /\ store' = got.saved
          /\ Record(got.reset, <<>>, 0)
          /\ inflight' =
                [k \in DOMAIN inflight \cup {c} |->
                    IF k = c
                    THEN [message |-> message, platform |-> platform,
                          phone_number |-> phone_number, session |-> got.session,
                          serial |-> (DOMAIN inflight = {} /\ result.serial)]
                    ELSE [inflight[k] EXCEPT !.serial = FALSE]]
    /\ UNCHANGED <<result, authEvent>>

FinishCall(c) ==
    /\ c \in DOMAIN inflight
    /\ inflight' = [k \in DOMAIN inflight \ {c} |-> inflight[k]]
    /\ UNCHANGED authEvent
    /\ \E call \in {inflight[c]} :
       IF Unauthorized(call.session, call.platform)
       THEN /\ result' = RaceResult(c, call.serial, StoredStep(call.session),
                                    <<"unauthorized">>, <<>>)
            /\ UNCHANGED <<store, notifications, leadStored>>
       ELSE \E prepared \in {PrepareSession(call.session, call.platform,
                                            call.phone_number)} :
            \E probe \in {ProcessConversationFlow(prepared, call.message, QuietEnv)} :
            \E env \in EnvsFor(probe) :
            \E flow \in {IF env = QuietEnv THEN probe
                         ELSE ProcessConversationFlow(prepared, call.message, env)} :
               /\ store' = CountMessage(flow.session)
               /\ Record(FALSE, flow.calls, flow.leads)
               /\ result' = RaceResult(c, call.serial, StoredStep(call.session),
                                       flow.response, flow.calls)

NextRace ==
    \/ \E c \in CallIds, m \in RaceMessages, a \in FailCallArgs : LoadCall(c, m, a[1], a[2])
    \/ \E c \in CallIds : FinishCall(c)

SpecRace == InitRace /\ [][NextRace]_vars

\* C16: while the process_message calls of a session have run one at a
\* time (no two in flight together), the notification dispatcher has been
\* invoked at most once in the session's lifetime; two calls that both
\* loaded the session at step5_confirmation before either persisted can
\* invoke it twice (the state C16_Witness describes).
C16_TwoDispatchesNeedOverlap ==
    /\ notifications >= 2 => ~result.serial
    /\ result.serial => Len(result.calls) <= 1

\* the second of two overlapping confirmations, loaded at
\* step5_confirmation like the first, has called the dispatcher again
C16_Witness ==
    /\ notifications = 2
    /\ inflight = EmptyDict
    /\ result.op = "process_message"
    /\ ~result.serial
    /\ result.loaded_step = "step5_confirmation"
    /\ Len(result.calls) = 1
    /\ StoredStep(store) = "completed"
    /\ Get(store, "reset_count", 0) = 0

----------------------------------------------------------------------------
(* Sequential process_message calls with a count of the calls that reached *)
(* the Flow Controller (n) and a note of whether any of them replaced the  *)
(* session record (reset_seen).                                            *)

CountedMessages == Messages \cup {MsgEmpty, MsgJo}

CountResult(reached, reset, n, reset_seen, response) ==
    [op |-> "process_message", reached |-> reached, reset |-> reset, n |-> n,
     reset_seen |-> reset_seen, response |-> response]

InitCount ==
    /\ store \in {EmptyDict, AuthorizedSession(MsgPhone, "landing_button")}
    /\ notifications = 0
    /\ leadStored = FALSE
    /\ result = [CountResult(FALSE, FALSE, 0, FALSE, <<>>) EXCEPT !.op = "none"]
    /\ authEvent = FALSE
    /\ inflight = EmptyDict

CountedProcessMessage(message, platform, phone_number) ==
    \E got \in {GetOrCreateSession(store, platform, phone_number)} :
       /\ got.reset => Get(store, "reset_count", 0) < MaxResets
       /\ ~got.reset => Get(store, "message_count", 0) < MaxMessages
       /\ IF Unauthorized(got.session, platform)
          THEN /\ store' = got.saved
               /\ result' = CountResult(FALSE, got.reset, result.n,
                                        result.reset_seen \/ got.reset, <<"unauthorized">>)
               /\ Record(got.reset, <<>>, 0)
          ELSE \E prepared \in {PrepareSession(got.session, platform, phone_number)} :
               \E probe \in {ProcessConversationFlow(prepared, message, QuietEnv)} :
               \E env \in EnvsFor(probe) :
               \E flow \in {IF env = QuietEnv THEN probe
                            ELSE ProcessConversationFlow(prepared, message, env)} :
               /\ store' = CountMessage(flow.session)
               /\ result' = CountResult(TRUE, got.reset, result.n + 1,
                                        result.reset_seen \/ got.reset, flow.response)
               /\ Record(got.reset, flow.calls, flow.leads)
       /\ UNCHANGED <<authEvent, inflight>>

NextCount == \E m \in CountedMessages, a \in FailCallArgs : CountedProcessMessage(m, a[1], a[2])

SpecCount == InitCount /\ [][NextCount]_vars

\* C17: every process_message call that reaches the Flow Controller leaves
\* the session's message_count exactly 1 above what the session it worked on
\* had (the stored count, or 0 for the new session that replaces a terminal
\* record in the same call), whether the answer was accepted or rejected;
\* while the session has never been reset, message_count is the number of
\* such calls made so far.
C17_MessageCount ==
    [][(result'.op = "process_message" /\ result'.reached)
       => /\ Get(store', "message_count", 0)
               = (IF result'.reset THEN 0 ELSE Get(store, "message_count", 0)) + 1
          /\ ~result'.reset_seen => Get(store', "message_count", 0) = result'.n]_vars

\* the third call on a session never reset was a rejected answer and was
\* counted like the two before it
C17_Witness ==
    /\ result.op = "process_message"
    /\ result.reached
    /\ ~result.reset_seen
    /\ result.n = 3
    /\ result.response[1] = "error"
    /\ Get(store, "message_count", 0) = 3
    /\ StoredStep(store) = "step3_area"

----------------------------------------------------------------------------
(* The scorer and the Notification Gate as functions of the session:       *)
(* every combination of the field values below, short of and at each       *)
(* minimum length, with the counters, steps and flags the gate reads.      *)

MsgAna == <<"A", "n", "a">>

MsgJoPadded == <<"J", "o", " ">>

MsgTI == <<"T", "I">>

MsgCivil == <<"C", "i", "v", "i", "l">>

MsgBrief ==
    <<"c", "o", "b", "r", "a", "n", "c", "a", " ", "i", "n", "d", "e", "v", "i", "d", "a">>

MsgDetails60 == MsgDetails \o MsgDetails \o MsgDetails

QualifyLeads ==
    {EmptyDict} \cup
    [identification : {<<>>, MsgJo, MsgJoPadded, MsgAna, MsgName},
     phone : {<<>>, MsgShort, MsgPhone},
     area_qualification : {<<>>, MsgTI, MsgCivil, MsgArea},
     case_details : {<<>>, MsgBrief, MsgDetails, MsgDetails60},
     confirmation : {<<>>, ConfirmationSim}]

QualifySessions ==
    [lead_data : QualifyLeads, message_count : {MinEngagement - 1, MinEngagement},
     current_step : {"step4_details", "step5_confirmation", "completed"},
     flow_completed : BOOLEAN, lawyers_notified : BOOLEAN]

InitQualify ==
    /\ store \in QualifySessions
    /\ notifications = 0
    /\ leadStored = FALSE
    /\ result = GateResult("none", "", [should_notify |-> FALSE, reason |-> ""])
    /\ authEvent = FALSE
    /\ inflight = EmptyDict

ScoreLead(platform) ==
    /\ result' = GateResult("_calculate_qualification_score", platform,
                            [qualification_score |->
                                 CalculateQualificationScore(LeadData(store), platform)])
    /\ UNCHANGED <<store, notifications, leadStored, authEvent, inflight>>

NextQualify ==
    \/ \E p \in Platforms : ScoreLead(p)
    \/ \E p \in Platforms : GateCheck(p)

SpecQualify == InitQualify /\ [][NextQualify]_vars

\* the lead the scorer rates highest: a two-token name, an 11-digit phone,
\* an area with a high-value keyword, 60 characters of details, a confirmation
FullLead(lead_data) ==
    /\ DOMAIN lead_data # {}
    /\ TokenCount(lead_data.identification) = 2
    /\ Len(lead_data.phone) = 11
    /\ \A i \in 1..Len(lead_data.phone) : IsDigit(lead_data.phone[i])
    /\ ContainsAny(Lower(lead_data.area_qualification), HighValueKeywords)
    /\ Len(lead_data.case_details) = 60
    /\ lead_data.confirmation # <<>>

\* C18: for every lead_data and either platform the qualification score, in
\* hundredths, lies in 0..100; an empty lead_data scores 0; a lead_data with
\* a two-token name, an 11-digit phone, a high-value area keyword,
\* 60-character details and a non-empty confirmation scores at least 95.
C18_ScoreRange ==
    result.op = "_calculate_qualification_score"
    => /\ result.reply.qualification_score \in 0..100
       /\ LeadData(store) = EmptyDict => result.reply.qualification_score = 0
       /\ FullLead(LeadData(store)) => result.reply.qualification_score >= 95

\* the full lead was scored for the whatsapp platform
C18_Witness ==
    /\ result.op = "_calculate_qualification_score"
    /\ result.platform = "whatsapp"
    /\ FullLead(LeadData(store))
    /\ LeadData(store).case_details = MsgDetails60
    /\ result.reply.qualification_score >= 95

\* what the claims say of the lead data of a session to be notified
NonEmptyFields(lead_data, fields) == \A f \in fields : Get(lead_data, f, <<>>) # <<>>

WhatsappQualified(area_min) ==
    LET lead_data == LeadData(store)
    IN /\ Get(store, "message_count", 0) >= 3
       /\ NonEmptyFields(lead_data, {"identification", "area_qualification", "phone"})
       /\ LenOf(lead_data, "identification") >= 3
       /\ LenOf(lead_data, "area_qualification") >= area_min
       /\ LenOf(lead_data, "phone") >= 10
       /\ StoredStep(store) \in {"step5_confirmation", "completed"}
       /\ CalculateQualificationScore(lead_data, "whatsapp") >= 70

----------------------------------------------------------------------------
(* Finalization without a usable phone number.                             *)

\* the last call went through the controller's closing step and finalization
\* stopped at the phone re-prompt
PhoneReprompted(r) == r.op = "process_message" /\ r.response = <<"phone_reprompt">>

\* C21: when finalization finds no phone number of at least ten characters it
\* re-prompts, calls neither the dispatcher nor the Lead Store, and the stored
\* session is not marked complete (flow_completed false, current_step not
\* completed)
C21_AsStated ==
    [][PhoneReprompted(result')
       => /\ result'.calls = <<>>
          /\ result'.leads = 0
          /\ ~Flag(store', "flow_completed")
          /\ StoredStep(store') # "completed"]_vars

----------------------------------------------------------------------------
(* Retrying a failed dispatch.                                             *)

CollectedFields == {"identification", "area_qualification", "case_details", "phone"}

\* finalization ran in this session lifetime and its dispatcher call did not
\* succeed: the flow is closed, a call was made, the flag is still false
DispatchFailed ==
    /\ Stored
    /\ Flag(store, "flow_completed")
    /\ ~Flag(store, "lawyers_notified")
    /\ leadStored
    /\ notifications > 0

\* the call dispatched the lead the session had collected
RetriedLead(lead_data, calls) ==
    /\ calls # <<>>
    /\ calls[1].lead_name = Get(lead_data, "identification", <<>>)
    /\ calls[1].category = Get(lead_data, "area_qualification", <<>>)
    /\ calls[1].lead_phone = Get(lead_data, "phone", <<>>)

\* C22: after a failed dispatch lawyers_notified stays false and a later
\* inbound message on the session leads to a new finalization attempt for the
\* same collected lead: the message that follows either dispatches that lead
\* again or leaves it, unnotified, in the session for a later attempt
C22_AsStated ==
    [][(DispatchFailed /\ result'.op = "process_message" /\ result'.status = "flow")
       => \/ RetriedLead(LeadData(store), result'.calls)
          \/ /\ ~Flag(store', "lawyers_notified")
             /\ \A f \in CollectedFields :
                   Get(LeadData(store'), f, <<>>) = Get(LeadData(store), f, <<>>)]_vars

----------------------------------------------------------------------------
(* Finalization with failing steps.  A session that waits for the          *)
(* confirmation is confirmed by process_message, and finalization is run   *)
(* again by handle_phone_number_submission, while one Session Store or     *)
(* Lead Store call of the finalization may fail and the dispatcher and the *)
(* messaging client may report failure or raise.  result.events lists the  *)
(* collaborator calls of the finalization in the order they were made.     *)
(* The Notification Gate may be run on the stored session in between.      *)

\* the save of line 878 raising or reporting failure, the save of line 905
\* raising, the Lead Store append raising
FinalizationFaults == {"none", "put_final", "put_final_reported", "put_notified", "append"}

\* [session, saves, events, calls, leads, sent, response]: the session in
\* memory at the return, the sessions the Session Store took, the collaborator
\* calls in order with their outcomes
HandleLeadFinalizationFailing(session_data, env, fault) ==
    LET lead_data == Get(session_data, "lead_data", EmptyDict)
        platform == Get(session_data, "platform", "web")
        user_name == Get(lead_data, "identification", DefaultClientName)
        area == Get(lead_data, "area_qualification", DefaultArea)
        from_lead == Get(lead_data, "phone", <<>>)
        phone_clean == IF Truthy(from_lead) THEN from_lead
                       ELSE Get(session_data, "phone_number", <<>>)
    IN IF ~Truthy(phone_clean) \/ Len(phone_clean) < PhoneMinLen
       THEN [session |-> session_data, saves |-> <<>>, events |-> <<>>, calls |-> <<>>,
             leads |-> 0, sent |-> 0, response |-> <<"phone_reprompt">>]
       ELSE LET updated ==
                    Update(session_data,
                           [phone_number |-> phone_clean,
                            phone_formatted |-> FormatBrazilianPhone(phone_clean),
                            phone_submitted |-> TRUE,
                            lead_qualified |-> TRUE,
                            lead_data |-> Put(lead_data, "phone", phone_clean)])
                already == AlreadyNotified(updated)
                call == DispatchCall(updated, user_name, phone_clean, area,
                                     IF platform = "whatsapp" THEN "whatsapp_completed_flow"
                                     ELSE "web_completed_flow",
                                     env.notify)
                succeeded == ~already /\ env.notify = "success"
                marked == IF succeeded THEN MarkNotified(updated) ELSE updated
                flag_saved == succeeded /\ fault # "put_notified"
                notification_success == already \/ flag_saved
                whatsapp_success == platform = "web" /\ env.send = "success"
                first_save == IF fault = "put_final_reported"
                              THEN <<<<"put_final", "failure">>>>
                              ELSE <<<<"put_final", "ok">>>>
                notifying ==
                    IF already THEN <<>>
                    ELSE <<<<"notify", env.notify>>>>
                         \o (IF succeeded
                             THEN <<<<"put_notified", IF flag_saved THEN "ok" ELSE "raise">>>>
                             ELSE <<>>)
                appending == <<<<"append", IF fault = "append" THEN "raise" ELSE "ok">>>>
                sending == IF platform = "web" THEN <<<<"send", env.send>>>> ELSE <<>>
            IN IF fault = "put_final"
               THEN [session |-> updated, saves |-> <<>>,
                     events |-> <<<<"put_final", "raise">>>>, calls |-> <<>>,
                     leads |-> 0, sent |-> 0, response |-> <<"thanks">>]
               ELSE [session |-> marked,
                     saves |-> (IF fault = "put_final_reported" THEN <<>> ELSE <<updated>>)
                               \o (IF flag_saved THEN <<marked>> ELSE <<>>),
                     events |-> first_save \o notifying \o appending \o sending,
                     calls |-> IF already THEN <<>> ELSE <<call>>,
                     leads |-> IF fault = "append" THEN 0 ELSE 1,
                     sent |-> IF platform = "web" THEN 1 ELSE 0,
                     response |-> FinalMessage(notification_success, whatsapp_success)]

\* what the last call was, what failed in it and what its finalization did;
\* given is the session the finalization was called with, platform and
\* notified are its platform and lawyers_notified
FinalizeResult(op, given, fault, env, fin) ==
    [op |-> op, given |-> given, platform |-> Get(given, "platform", "web"),
     notified |-> AlreadyNotified(given), fault |-> fault,
     notify |-> env.notify, send |-> env.send, events |-> fin.events, calls |-> fin.calls,
     leads |-> fin.leads, sent |-> fin.sent, response |-> fin.response]

InitFinalize ==
    /\ store \in {ConfirmingSession("web", NoneVal), ConfirmingSession("web", MsgPhone),
                  ConfirmingSession("whatsapp", MsgPhone)}
    /\ notifications = 0
    /\ leadStored = FALSE
    /\ result = FinalizeResult("none", store, "none", QuietEnv,
                               NoEffect(store, <<>>) @@ [saves |-> <<>>, events |-> <<>>])
    /\ authEvent = FALSE
    /\ inflight = EmptyDict

\* process_message with the confirmation, on the session's own platform
ConfirmFailing(phone_number, fault, env) ==
    /\ StoredStep(store) = "step5_confirmation"
    /\ \E platform \in {Get(store, "platform", "web")} :
       \E got \in {GetOrCreateSession(store, platform, phone_number)} :
       \E prepared \in {PrepareSession(got.session, platform, phone_number)} :
       \E given \in {FirstFlowSave(prepared, MsgSim)} :
       \E fin \in {HandleLeadFinalizationFailing(given, env, fault)} :
          /\ ~Unauthorized(got.session, platform)
          /\ store' = CountMessage(fin.session)
          /\ Record(FALSE, fin.calls, fin.leads)
          /\ result' = FinalizeResult("process_message", given, fault, env, fin)
    /\ UNCHANGED <<authEvent, inflight>>

\* handle_phone_number_submission on the stored session
SubmitPhoneFailing(phone_number, fault, env) ==
    /\ LET platform == Get(store, "platform", "web")
           phone_clean == Digits(phone_number)
           lead_data == Get(store, "lead_data", EmptyDict)
       IN IF platform # "whatsapp"
             /\ (Len(phone_clean) < MinPhoneDigits \/ Len(phone_clean) > MaxPhoneDigits)
          THEN /\ fault = "none" /\ env = QuietEnv
               /\ store' = store
               /\ result' = FinalizeResult("handle_phone_number_submission", store, fault, env,
                                           NoEffect(store, <<"invalid_number">>)
                                           @@ [saves |-> <<>>, events |-> <<>>])
               /\ UNCHANGED <<notifications, leadStored>>
          ELSE \E given \in {IF platform = "whatsapp" THEN store
                               ELSE Put(store, "lead_data",
                                        Put(lead_data, "phone", phone_clean))} :
               \E fin \in {HandleLeadFinalizationFailing(given, env, fault)} :
               /\ store' = IF fin.saves # <<>> THEN fin.saves[Len(fin.saves)] ELSE store
               /\ Record(FALSE, fin.calls, fin.leads)
               /\ result' = FinalizeResult("handle_phone_number_submission", given, fault,
                                           env, fin)
    /\ UNCHANGED <<authEvent, inflight>>

NextFinalize ==
    \/ \E ph \in PhoneArgs, fault \in FinalizationFaults, env \in FailEnvs :
            ConfirmFailing(ph, fault, env)
    \/ \E ph \in SubmittedPhones, fault \in FinalizationFaults, env \in FailEnvs :
            SubmitPhoneFailing(ph, fault, env)
    \/ \E p \in Platforms : NotifyStoredSession(p)

SpecFinalize == InitFinalize /\ [][NextFinalize]_vars

\* the last call ran a finalization that got past the phone check
Finalized(r) == "events" \in DOMAIN r /\ r.events # <<>>

Attempted(events, step) == \E i \in 1..Len(events) : events[i][1] = step

\* C23: in finalization the failure of one step (session persist, dispatch,
\* lead persist, follow-up send) does not keep the remaining steps from being
\* attempted: the Lead Store append is attempted, the dispatcher is called
\* unless the lawyers were notified before, and on web the follow-up is sent
C23_AsStated ==
    [][Finalized(result')
       => /\ Attempted(result'.events, "append")
          /\ result'.notified \/ Attempted(result'.events, "notify")
          /\ result'.platform = "web" => Attempted(result'.events, "send")]_vars

----------------------------------------------------------------------------
(* Persist-after-send ordering.                                            *)

Position(events, event) ==
    IF \E i \in 1..Len(events) : events[i] = event
    THEN CHOOSE i \in 1..Len(events) : events[i] = event
    ELSE 0

\* the dispatcher answered success to a call made by the last operation
DispatchSucceeded(r) == \E i \in 1..Len(r.calls) : r.calls[i].outcome = "success"

\* the flag's save comes right after the dispatcher's success and before the
\* Lead Store append and the follow-up send
SavedRightAfterSuccess(events) ==
    LET saved == Position(events, <<"put_notified", "ok">>)
    IN saved > 0
       => /\ saved > 1 /\ events[saved - 1] = <<"notify", "success">>
          /\ \A i \in 1..Len(events) :
                events[i][1] \in {"append", "send"} => i > saved

\* C24: the stored lawyers_notified becomes true only in a call whose
\* dispatcher call returned success, and then it does; the flag is saved right
\* after that success, before the Lead Store append and the follow-up send; a
\* call whose dispatcher call fails or raises leaves the stored flag as it was
C24_PersistAfterSend ==
    [][/\ (Flag(store', "lawyers_notified") /\ ~Flag(store, "lawyers_notified"))
          => DispatchSucceeded(result')
       /\ (DispatchSucceeded(result') /\ result'.op # "handle_phone_number_submission")
          => Flag(store', "lawyers_notified")
       /\ Finalized(result')
          => /\ SavedRightAfterSuccess(result'.events)
             /\ Position(result'.events, <<"put_notified", "ok">>) > 0
                => Flag(store', "lawyers_notified")
       /\ (result'.calls # <<>> /\ ~DispatchSucceeded(result'))
          => Flag(store', "lawyers_notified") = Flag(store, "lawyers_notified")]_vars

\* the dispatcher succeeded, the flag was saved, then the lead was appended and
\* the follow-up sent, and the stored session is notified
C24_Witness ==
    /\ Finalized(result)
    /\ result.events = <<<<"put_final", "ok">>, <<"notify", "success">>,
                         <<"put_notified", "ok">>, <<"append", "ok">>,
                         <<"send", "failure">>>>
    /\ Flag(store, "lawyers_notified")

----------------------------------------------------------------------------
(* One lead record per session lifetime.                                   *)

\* C25: finalization runs once per session lifetime: a call of process_message
\* or handle_phone_number_submission appends a lead record only if the
\* session lifetime it works on has none yet
C25_AsStated ==
    [][(result'.op \in {"process_message", "handle_phone_number_submission"}
        /\ result'.leads > 0 /\ ~result'.reset)
       => ~leadStored]_vars

----------------------------------------------------------------------------
(* The follow-up send of the finalization.                                 *)

StateFields == {"current_step", "flow_completed", "lawyers_notified", "lead_data"}

\* the finalization of the last call, had the messaging client answered send
Resent(r, send) ==
    HandleLeadFinalizationFailing(r.given, [notify |-> r.notify, send |-> send], r.fault)

SameState(s, t) == \A f \in StateFields : Get(s, f, NoneVal) = Get(t, f, NoneVal)

\* C26: in finalization the messaging client is called if and only if the
\* session's platform is web, and the session that results is the same
\* whether the send succeeds, reports failure or raises; only the wording of
\* the acknowledgement differs
C26_AsStated ==
    [][Finalized(result')
       => /\ Attempted(result'.events, "send") <=> result'.platform = "web"
          /\ result'.sent > 0 <=> result'.platform = "web"
          /\ \A send \in SendOutcomes \cup {"raise"} :
                /\ SameState(Resent(result', send).session,
                             Resent(result', result'.send).session)
                /\ Resent(result', send).saves = Resent(result', result'.send).saves
                /\ Resent(result', send).calls = Resent(result', result'.send).calls
                /\ Resent(result', send).leads = Resent(result', result'.send).leads]_vars

\* the same, for the finalizations whose first save did not raise
C26_PastFirstSave ==
    [][(Finalized(result') /\ result'.fault # "put_final")
       => /\ Attempted(result'.events, "send") <=> result'.platform = "web"
          /\ \A send \in SendOutcomes \cup {"raise"} :
                /\ SameState(Resent(result', send).session,
                             Resent(result', result'.send).session)
                /\ Resent(result', send).saves = Resent(result', result'.send).saves]_vars

----------------------------------------------------------------------------
(* The first message of a session.                                         *)

\* the next message the Flow Controller gets is the first of its session: the
\* session is yet to be created, is to be replaced, or still waits for it
FirstPending == ~Stored \/ StoredTerminal \/ Flag(store, "first_interaction")

\* the step just taken was a process_message call that reached the controller
EngagedStep == MessageStep /\ result'.status = "flow"

\* C27: the first message of a created or reset session, whatever it says, is
\* neither validated nor stored: the reply is the greeting followed by the
\* name question, current_step becomes step1_name and first_interaction is
\* cleared; the message after it is validated as the answer of step1_name
C27_FirstMessage ==
    [][/\ (EngagedStep /\ FirstPending)
          => /\ result'.response = <<"greeting", "question", "step1_name">>
             /\ StoredStep(store') = "step1_name"
             /\ ~Flag(store', "first_interaction")
             /\ DOMAIN LeadData(store') \subseteq {"phone"}
             /\ result'.platform = "web"
                => LeadData(store') = IF ~Stored \/ StoredTerminal THEN EmptyDict
                                      ELSE LeadData(store)
             /\ (result'.platform = "whatsapp" /\ "phone" \in DOMAIN LeadData(store'))
                => \/ LeadData(store').phone = result'.phone_number
                   \/ LeadData(store') = LeadData(store)
       /\ (EngagedStep /\ ~FirstPending /\ "session_id" \in DOMAIN store
           /\ StoredStep(store) = "step1_name")
          => \/ /\ result'.response \in {<<"error", ErrName>>, <<"error", ErrGeneric>>}
                /\ StoredStep(store') = "step1_name"
                /\ "identification" \notin DOMAIN LeadData(store')
             \/ /\ result'.response = Question("step3_area")
                /\ StoredStep(store') = "step3_area"
                /\ "identification" \in DOMAIN LeadData(store')]_vars

\* a session whose first message was answered with the greeting and whose
\* second was rejected by the name rule
C27_Witness ==
    /\ result.op = "process_message"
    /\ result.response = <<"error", ErrName>>
    /\ Get(store, "message_count", 0) = 2
    /\ StoredStep(store) = "step1_name"
    /\ DOMAIN LeadData(store) = {}

----------------------------------------------------------------------------
(* Sessions stored with a current_step the controller does not know.       *)

RecognizedSteps == StepNames \cup {"completed"}

\* a step name of an older step table, the mark of an ended session, no name
StraySteps == {"step2_contact", "ended", ""}

StrayLeads == {EmptyDict, AnsweredLead}

\* an open session, past its first message, whose current_step is stray
StraySession(platform, current_step, lead_data) ==
    Update(NewSession(platform),
           [current_step |-> current_step, lead_data |-> lead_data,
            first_interaction |-> FALSE, whatsapp_authorized |-> platform = "whatsapp"])

InitStray ==
    /\ store \in {StraySession(p, step, lead) :
                     p \in Platforms, step \in StraySteps, lead \in StrayLeads}
    /\ notifications = 0
    /\ leadStored = FALSE
    /\ result = Result("none", "", NoneVal, "", <<>>, FALSE, <<>>, 0, 0)
    /\ authEvent = FALSE
    /\ inflight = EmptyDict

NextStray == \E m \in Messages, args \in FailCallArgs : ProcessMessage(m, args[1], args[2])

SpecStray == InitStray /\ [][NextStray]_vars

\* C28: a message for a session whose current_step is not a recognized state
\* is answered with the greeting, and sets current_step = greeting and
\* first_interaction = true; the next message moves the session to step1_name
C28_InvalidStateRecovers ==
    [][/\ (EngagedStep /\ ~StoredTerminal /\ ~Flag(store, "first_interaction")
           /\ StoredStep(store) \notin RecognizedSteps)
          => /\ result'.response = <<"greeting">>
             /\ StoredStep(store') = "greeting"
             /\ Flag(store', "first_interaction")
       /\ (EngagedStep /\ ~StoredTerminal /\ StoredStep(store) = "greeting")
          => StoredStep(store') = "step1_name"]_vars

\* the message after the fallback: the session is at step1_name
C28_Witness ==
    /\ result.op = "process_message"
    /\ result.response = <<"greeting", "question", "step1_name">>
    /\ ~result.reset
    /\ StoredStep(store) = "step1_name"
    /\ Get(store, "message_count", 0) = 2
    /\ LeadData(store) = AnsweredLead

----------------------------------------------------------------------------
(* What an accepted answer writes.                                         *)

LeadFields ==
    {"identification", "area_qualification", "case_details", "phone",
     "preferred_contact_time", "confirmation"}

\* the step just taken was a process_message call whose message was accepted
\* as the answer of the stored session's current step
AcceptedStep ==
    /\ EngagedStep
    /\ ~FirstPending
    /\ "session_id" \in DOMAIN store
    /\ StoredStep(store) \in StepNames \ {"greeting"}
    /\ result'.response[1] \in {"question", "final", "phone_reprompt"}

\* the field the stored session's current step names
StepField == FlowSteps(Get(store, "platform", "web"))[StoredStep(store)].field

\* the lead_data fields whose presence or value the step changed
Written ==
    {f \in LeadFields : Get(LeadData(store'), f, NoneVal) # Get(LeadData(store), f, NoneVal)}

\* the step replaced the session record: a reset, or the landing page's form
Replaced == result'.reset \/ result'.op = "handle_whatsapp_authorization"

\* C29: an accepted answer writes exactly the lead_data field its step names
\* and leaves every other field unchanged, and a field once written keeps its
\* value until the session is reset
C29_AsStated ==
    [][/\ AcceptedStep => (StepField \in DOMAIN LeadData(store') /\ Written \subseteq {StepField})
       /\ ~Replaced => \A f \in DOMAIN LeadData(store) :
                          Get(LeadData(store'), f, NoneVal) = LeadData(store)[f]]_vars

\* C29 (amended): an accepted answer writes the field its step names and
\* changes no other field but phone; every field but phone, once written,
\* keeps its value until the session record is replaced
C29_StepWritesItsField ==
    [][/\ AcceptedStep
          => /\ StepField \in DOMAIN LeadData(store')
             /\ Written \subseteq {StepField, "phone"}
       /\ ~Replaced => \A f \in DOMAIN LeadData(store) \ {"phone"} :
                          Get(LeadData(store'), f, NoneVal) = LeadData(store)[f]]_vars

\* a WhatsApp answer to the name question that also put the sender's number
\* into lead_data
C29_Witness ==
    /\ result.op = "process_message"
    /\ result.platform = "whatsapp"
    /\ result.response = Question("step3_area")
    /\ DOMAIN LeadData(store) = {"identification", "phone"}
    /\ Get(store, "message_count", 0) = 2

----------------------------------------------------------------------------
(* The platform of a session and the platform argument of a call.          *)

\* the stored session would be turned away by the authorization check
NotAuthorized(session_data) ==
    ~Flag(session_data, "whatsapp_authorized") /\ DOMAIN LeadData(session_data) = {}

StoredPlatform(session_data) == Get(session_data, "platform", "web")

\* a message for an open session, past its first message, at the phone step
AtPhoneStep ==
    /\ EngagedStep
    /\ ~FirstPending
    /\ "session_id" \in DOMAIN store
    /\ StoredStep(store) = "phone_collection"

\* the phone step's validation rule and field are those of the given platform
PhoneStepRuleOf(platform) ==
    IF platform = "whatsapp"
    THEN /\ result'.response \in {<<"error", ErrHorario>>, <<"error", ErrGeneric>>,
                                  Question("step5_confirmation")}
         /\ result'.response[1] = "question"
            => "preferred_contact_time" \in DOMAIN LeadData(store')
    ELSE /\ result'.response \in {<<"error", ErrPhone>>, <<"error", ErrGeneric>>,
                                  Question("step5_confirmation")}
         /\ "preferred_contact_time" \notin DOMAIN LeadData(store')
         /\ result'.response[1] = "question"
            => /\ Len(Get(LeadData(store'), "phone", <<>>)) >= MinPhoneDigits
               /\ Get(store', "phone_submitted", FALSE)

\* C30: no process_message call changes the stored platform of a session that
\* is not reset, and the step table, the validation rules and the
\* authorization check applied to a message are those of the stored platform,
\* also when the call passes another platform
C30_AsStated ==
    [][(MessageStep /\ Stored /\ ~StoredTerminal)
       => /\ Get(store', "platform", NoneVal) = Get(store, "platform", NoneVal)
          /\ AtPhoneStep => PhoneStepRuleOf(StoredPlatform(store))
          /\ BlockedStep <=> (StoredPlatform(store) = "whatsapp" /\ NotAuthorized(store))]_vars

\* C30 (amended): the stored platform is unchanged, the step table and the
\* validation rules are those of the stored platform, and the authorization
\* check is made when, and only when, the call's platform argument is whatsapp
C30_PlatformFixed ==
    [][(MessageStep /\ Stored /\ ~StoredTerminal)
       => /\ Get(store', "platform", NoneVal) = Get(store, "platform", NoneVal)
          /\ AtPhoneStep => PhoneStepRuleOf(StoredPlatform(store))
          /\ BlockedStep <=> (result'.platform = "whatsapp" /\ NotAuthorized(store))]_vars

\* a web session that answered the phone question in a call made with the
\* whatsapp platform: the answer was taken by the web rule
C30_Witness ==
    /\ result.op = "process_message"
    /\ result.platform = "whatsapp"
    /\ StoredPlatform(store) = "web"
    /\ result.response = <<"error", ErrPhone>>
    /\ StoredStep(store) = "phone_collection"

----------------------------------------------------------------------------
(* The Validator as a function: _validate_answer applied to answers drawn  *)
(* from a bounded set, at every step name and on both platforms.           *)

MaxAnswerLen == 3

AnswerChars == {" ", "a", "7"}

\* every string over AnswerChars of length n or less
RECURSIVE StringsUpTo(_)
StringsUpTo(n) ==
    IF n = 0 THEN {<<>>}
    ELSE LET shorter == StringsUpTo(n - 1)
         IN shorter \cup {Append(s, c) : s \in shorter, c \in AnswerChars}

DigitRun(n) == [i \in 1..n |-> "7"]

\* short strings of every shape, names, and numbers around the 10 and 13
\* digit limits, plain and formatted
ValidatedAnswers ==
    StringsUpTo(MaxAnswerLen)
    \cup {MsgName, MsgJo, MsgJoPadded, MsgArea, MsgDetails, MsgSim, MsgTarde, MsgPhone,
          MsgPhoneFormatted, DigitRun(9), DigitRun(10), DigitRun(13), DigitRun(14),
          <<" ">> \o DigitRun(9), <<"a">> \o DigitRun(10) \o <<" ", "a">>}

\* the steps of the table, and names the table does not have
ValidatedSteps == StepNames \cup {"completed", "step2_contact"}

ValidateResult(op, answer, step, platform, verdict) ==
    [op |-> op, answer |-> answer, step |-> step, platform |-> platform,
     ok |-> verdict.ok, error |-> verdict.error]

InitValidate ==
    /\ store = EmptyDict
    /\ notifications = 0
    /\ leadStored = FALSE
    /\ result = ValidateResult("none", <<>>, "", "", Accept)
    /\ authEvent = FALSE
    /\ inflight = EmptyDict

Validate(answer, step, platform) ==
    /\ result' = ValidateResult("validate_answer", answer, step, platform,
                                ValidateAnswer(answer, step, platform))
    /\ UNCHANGED <<store, notifications, leadStored, authEvent, inflight>>

NextValidate ==
    \E answer \in ValidatedAnswers, step \in ValidatedSteps, platform \in Platforms :
        Validate(answer, step, platform)

SpecValidate == InitValidate /\ [][NextValidate]_vars

\* the length of s without its leading and trailing spaces
TrimmedLen(s) ==
    LET inked == {i \in 1..Len(s) : s[i] # " "}
    IN IF inked = {} THEN 0
       ELSE (CHOOSE i \in inked : \A j \in inked : j <= i)
            - (CHOOSE i \in inked : \A j \in inked : i <= j) + 1

\* s has two characters that are not spaces with a space in between
TwoTokens(s) ==
    \E i, j, k \in 1..Len(s) : i < j /\ j < k /\ s[i] # " " /\ s[j] = " " /\ s[k] # " "

DigitCount(s) == Cardinality({i \in 1..Len(s) : IsDigit(s[i])})

StructuredSteps ==
    {"step1_name", "step3_area", "step4_details", "phone_collection", "step5_confirmation"}

\* C31: the Validator rejects every answer whose trimmed length is below 2;
\* at step1_name it accepts exactly the answers of two tokens or more; at the
\* web phone_collection exactly those with 10 to 13 digits; at a step other
\* than the five structured ones every answer of trimmed length 2 or more
C31_Validator ==
    result.op = "validate_answer"
    => /\ TrimmedLen(result.answer) < 2 => ~result.ok
       /\ result.step = "step1_name" => (result.ok <=> TwoTokens(result.answer))
       /\ (result.step = "phone_collection" /\ result.platform = "web")
          => (result.ok <=> (DigitCount(result.answer) >= 10
                             /\ DigitCount(result.answer) <= 13))
       /\ result.step \notin StructuredSteps
          => (result.ok <=> TrimmedLen(result.answer) >= 2)
       /\ result.ok <=> result.error = ""

\* a two-character name without a second token, rejected by the name rule
C31_Witness ==
    /\ result.op = "validate_answer"
    /\ result.step = "step1_name"
    /\ result.answer = MsgJo
    /\ ~result.ok
    /\ result.error = ErrName

----------------------------------------------------------------------------
(* Terminal records never reach the Flow Controller.                       *)

\* the session _get_or_create_session returned to the process_message call
\* just made
HandedOver == GetOrCreateSession(store, result'.platform, result'.phone_number).session

ControllerClosings == {<<"already_finished">>, <<"closing">>}

\* C32: every session process_message hands to the Flow Controller has
\* session_ended and flow_completed false, and process_message never returns
\* the controller's already-finished message or its closing acknowledgement
C32_NoTerminalSessionInFlow ==
    [][EngagedStep
       => /\ ~Flag(HandedOver, "session_ended")
          /\ ~Flag(HandedOver, "flow_completed")
          /\ result'.response \notin ControllerClosings]_vars

\* a message for an ended or completed session was answered by the
\* controller on the session that replaced it
C32_Witness ==
    /\ result.op = "process_message"
    /\ result.status = "flow"
    /\ result.reset
    /\ Get(store, "reset_count", 0) = 1
    /\ StoredStep(store) = "step1_name"
    /\ ~Flag(store, "flow_completed")
    /\ ~Flag(store, "session_ended")

----------------------------------------------------------------------------
(* Conversations of answers that are only just accepted: a name of three   *)
(* characters, an area keyword that earns no extra points, details of 15   *)
(* characters, a phone number of ten digits, the shortest confirmation.    *)

MsgAB == <<"a", " ", "b">>

MsgMedic == <<"m", "e", "d", "i", "c">>

MsgDetails15 == <<"f", "u", "i", " ", "d", "e", "m", "i", "t", "i", "d", "o", " ", "j", "a">>

MsgPhone10 == DigitRun(10)

MsgOk == <<"o", "k">>

MinimalMessages == {MsgAB, MsgMedic, MsgDetails15, MsgPhone10, MsgOk, MsgShort}

InitMinimal ==
    /\ store \in {EmptyDict, AuthorizedSession(MsgPhone, "landing_button")}
    /\ notifications = 0
    /\ leadStored = FALSE
    /\ result = Result("none", "", NoneVal, "", <<>>, FALSE, <<>>, 0, 0)
    /\ authEvent = FALSE
    /\ inflight = EmptyDict

NextMinimal == \E m \in MinimalMessages, args \in CallArgs : ProcessMessage(m, args[1], args[2])

SpecMinimal == InitMinimal /\ [][NextMinimal]_vars

\* the least score of a lead whose answers the Validator accepted
AcceptedScore ==
    ScoreNameLen + ScoreNameTokens + ScorePhone + ScoreArea + ScoreDetails + ScoreConfirmation

\* the session as it was when the finalization of the process_message call
\* just made called the dispatcher: before the call's count and before the flag
WhenDispatched ==
    Update(store', [message_count |-> Get(store', "message_count", 0) - 1,
                    lawyers_notified |-> FALSE])

\* C33: whenever finalization reached through process_message calls the
\* dispatcher, the session meets the Notification Gate's criteria of its
\* platform and scores at least 0.83
C33_FinalizationWithinGate ==
    [][(MessageStep /\ result'.calls # <<>>)
       => /\ ShouldNotifyLawyers(WhenDispatched, StoredPlatform(store')).should_notify
          /\ CalculateQualificationScore(LeadData(store'), StoredPlatform(store'))
                >= AcceptedScore
          /\ result'.calls[1].flow_completed
          /\ result'.calls[1].current_step = "completed"]_vars

\* a web lead of answers that were only just accepted was dispatched with a
\* score of exactly 0.83
C33_Witness ==
    /\ result.op = "process_message"
    /\ result.calls # <<>>
    /\ StoredPlatform(store) = "web"
    /\ LeadData(store).identification = MsgAB
    /\ LeadData(store).area_qualification = MsgMedic
    /\ LeadData(store).case_details = MsgDetails15
    /\ CalculateQualificationScore(LeadData(store), "web") = AcceptedScore

----------------------------------------------------------------------------
\* C34: no handle_whatsapp_authorization call reaches the notification
\* dispatcher, whatever its phone number, source and user_data: the session
\* synthesized for a landing-page lead has message_count = 1, the gate
\* evaluated on it answers not_qualified_yet and the stored record has
\* lawyers_notified = false; a call that takes the other branch evaluates no
\* gate and leaves the stored flag as it was.
C34_AuthorizationNeverDispatches ==
    [][result'.op = "handle_whatsapp_authorization"
       => /\ notifications' = notifications
          /\ ~result'.gate.notified
          /\ result'.pre_populated
             => /\ Get(store', "message_count", 0) = 1
                /\ result'.gate.reason = "not_qualified_yet"
                /\ ~Flag(store', "lawyers_notified")
          /\ ~result'.pre_populated
             => /\ result'.gate = NoGate
                /\ Flag(store', "lawyers_notified") = Flag(store, "lawyers_notified")]_vars

\* a landing-page authorization carrying a complete lead (name, area, problem
\* and a 13-digit phone) was evaluated by the gate and nobody was notified
C34_Witness ==
    /\ result.op = "handle_whatsapp_authorization"
    /\ result.pre_populated
    /\ result.user_data = [name |-> MsgName, area |-> MsgArea, problem |-> MsgDetails]
    /\ result.phone_number = MsgPhone
    /\ result.gate = [notified |-> FALSE, reason |-> "not_qualified_yet"]
    /\ store.message_count = 1
    /\ ~store.lawyers_notified
    /\ notifications = 0

----------------------------------------------------------------------------
\* C35: whichever entry point makes it (process_message,
\* handle_whatsapp_authorization, handle_phone_number_submission), a call of
\* the notification dispatcher is made for a session that has
\* flow_completed = true and current_step = completed at the time of the
\* call; none is made for a session that is mid-flow, freshly reset or absent
\* from the store.
C35_AsStated ==
    [][result'.op \in {"process_message", "handle_whatsapp_authorization",
                       "handle_phone_number_submission"}
       => \A i \in 1..Len(result'.calls) :
             /\ result'.calls[i].flow_completed
             /\ result'.calls[i].current_step = "completed"]_vars

----------------------------------------------------------------------------
(* end_session while a process_message call for the same identifier is in  *)
(* flight: the call loads the record (LoadCall), end_session runs whole,   *)
(* the call goes on with the copy it loaded and persists it (FinishCall).  *)

EndCall ==
    /\ store' = IF DOMAIN store # {}
                THEN Update(store, [session_ended |-> TRUE, current_step |-> "ended"])
                ELSE store
    /\ result' = [RaceResult("", DOMAIN inflight = {}, StoredStep(store),
                             IF DOMAIN store # {} THEN <<"ended">> ELSE <<"not_found">>,
                             <<>>)
                  EXCEPT !.op = "end_session"]
    /\ UNCHANGED <<notifications, leadStored, authEvent, inflight>>

\* one process_message call at a time is in flight beside end_session
NextEnd ==
    \/ \E m \in RaceMessages, a \in FailCallArgs : LoadCall("a", m, a[1], a[2])
    \/ FinishCall("a")
    \/ EndCall

SpecEnd == InitRace /\ [][NextEnd]_vars

\* C36: once end_session has marked the stored record session_ended = true,
\* the record keeps the mark until an inbound message replaces it by a reset
\* session, also when a process_message call that loaded the record before
\* end_session ran persists its copy afterwards; an ended session is never
\* revived in place with its old lead_data and step.
C36_AsStated ==
    [][Flag(store, "session_ended")
       => \/ Flag(store', "session_ended")
          \/ Get(store', "reset_count", 0) > Get(store, "reset_count", 0)]_vars

----------------------------------------------------------------------------
(* A user who answers every question: process_message calls on a web       *)
(* session, or on an authorized WhatsApp session, with the platform and    *)
(* the number of the stored session.  The calls are split by what the      *)
(* Validator says of the answer at the session's step; rejections is the   *)
(* number of rejected answers so far.                                      *)

\* rejected answers sent in one conversation
MaxRejections == 2

ProgressMessages == Messages \cup {MsgShort, MsgTarde}

ProgressResult(accepted, rejections, response) ==
    [op |-> "process_message", accepted |-> accepted, rejections |-> rejections,
     response |-> response]

InitProgress ==
    /\ store \in {EmptyDict, AuthorizedSession(MsgPhone, "landing_button"),
                  AuthorizedSession(<<>>, "landing_button")}
    /\ notifications = 0
    /\ leadStored = FALSE
    /\ result = [ProgressResult(TRUE, 0, <<>>) EXCEPT !.op = "none"]
    /\ authEvent = FALSE
    /\ inflight = EmptyDict

\* the arguments of the user's calls
ProgressArgs ==
    IF Get(store, "platform", "web") = "web" THEN <<"web", NoneVal>>
    ELSE IF Truthy(Get(store, "phone_number", <<>>)) THEN <<"whatsapp", MsgPhone>>
    ELSE <<"whatsapp", NoneVal>>

SendAnswer(message, accepted) ==
    \E platform \in {ProgressArgs[1]}, phone_number \in {ProgressArgs[2]} :
    \E got \in {GetOrCreateSession(store, platform, phone_number)} :
    \E rejections \in {result.rejections + (IF accepted THEN 0 ELSE 1)} :
       /\ ~got.reset          \* the conversation is followed up to its completion
       /\ accepted = ValidateAnswer(message, Get(got.session, "current_step", "greeting"),
                                    Get(got.session, "platform", "web")).ok
       /\ rejections <= MaxRejections
       /\ Get(got.session, "message_count", 0) < MaxMessages + MaxRejections
       /\ IF Unauthorized(got.session, platform)
          THEN /\ store' = got.saved
               /\ result' = ProgressResult(accepted, rejections, <<"unauthorized">>)
               /\ Record(got.reset, <<>>, 0)
          ELSE \E prepared \in {PrepareSession(got.session, platform, phone_number)} :
               \E probe \in {ProcessConversationFlow(prepared, message, QuietEnv)} :
               \E env \in EnvsFor(probe) :
               \E flow \in {IF env = QuietEnv THEN probe
                            ELSE ProcessConversationFlow(prepared, message, env)} :
               /\ store' = CountMessage(flow.session)
               /\ result' = ProgressResult(accepted, rejections, flow.response)
               /\ Record(got.reset, flow.calls, flow.leads)
       /\ UNCHANGED <<authEvent, inflight>>

AcceptedAnswer == \E m \in ProgressMessages : SendAnswer(m, TRUE)

RejectedAnswer == \E m \in ProgressMessages : SendAnswer(m, FALSE)

NextProgress == AcceptedAnswer \/ RejectedAnswer

\* the user eventually sends an accepted answer at each step
SpecProgress == InitProgress /\ [][NextProgress]_vars /\ WF_vars(AcceptedAnswer)

\* C37: from every non-terminal step of a web session or an authorized
\* WhatsApp session, a user who keeps sending messages and at each step
\* eventually sends an answer the Validator accepts brings the session to
\* current_step = completed; a rejected answer leaves the step and the
\* collected answers as they were, and at every step some answer is accepted.
C37_FlowCompletes ==
    /\ (~StoredTerminal) ~> (StoredStep(store) = "completed")
    /\ [](~StoredTerminal => ENABLED AcceptedAnswer)
    /\ [][~result'.accepted
          => /\ StoredStep(store') = StoredStep(store)
             /\ LeadData(store') = LeadData(store)
             /\ ~StoredTerminal']_vars

\* a WhatsApp conversation was completed after the user had an answer rejected
C37_Witness ==
    /\ result.op = "process_message"
    /\ result.accepted
    /\ result.rejections >= 1
    /\ StoredPlatform(store) = "whatsapp"
    /\ StoredStep(store) = "completed"
    /\ Flag(store, "flow_completed")
    /\ Get(store, "reset_count", 0) = 0

----------------------------------------------------------------------------
(* Authorization events between the messages of a conversation: sequential *)
(* process_message, end_session and handle_whatsapp_authorization calls,   *)
(* the last with every source and with and without user_data.              *)

NextButton ==
    \/ \E m \in Messages, a \in FailCallArgs : ProcessMessage(m, a[1], a[2])
    \/ EndSession
    \/ \E src \in AuthSourceArgs, ud \in UserDatas : Authorize(MsgPhone, src, ud)

SpecButton == Init /\ [][NextButton]_vars

\* the fields the authorization of a stored session writes
AuthorizationFields == {"whatsapp_authorized", "authorization_source"}

\* C38: handle_whatsapp_authorization called without user_data, or with a
\* source other than landing_chat, on a session that is stored sets
\* whatsapp_authorized = true and authorization_source = the call's source
\* and changes no other field of the record: current_step, lead_data,
\* message_count, flow_completed, lawyers_notified and session_ended are what
\* they were before the call.
C38_AuthorizationFrame ==
    [][(/\ result'.op = "handle_whatsapp_authorization"
        /\ ~result'.pre_populated
        /\ Stored)
       => /\ Flag(store', "whatsapp_authorized")
          /\ Get(store', "authorization_source", "") = result'.source
          /\ DOMAIN store' = DOMAIN store \cup AuthorizationFields
          /\ \A k \in DOMAIN store \ AuthorizationFields :
                Get(store', k, NoneVal) = store[k]
          /\ StoredStep(store') = StoredStep(store)
          /\ LeadData(store') = LeadData(store)
          /\ Get(store', "message_count", 0) = Get(store, "message_count", 0)
          /\ \A f \in {"flow_completed", "lawyers_notified", "session_ended"} :
                Flag(store', f) = Flag(store, f)]_vars

\* a web conversation that waits for the case details, name and area given,
\* was authorized by the landing page's button and is where it was
C38_Witness ==
    /\ result.op = "handle_whatsapp_authorization"
    /\ ~result.pre_populated
    /\ result.source = "landing_button"
    /\ StoredPlatform(store) = "web"
    /\ StoredStep(store) = "step4_details"
    /\ LeadData(store) = [identification |-> MsgName, area_qualification |-> Strip(MsgArea)]
    /\ Get(store, "message_count", 0) = 3
    /\ Flag(store, "whatsapp_authorized")
    /\ Get(store, "authorization_source", "") = "landing_button"
    /\ ~Flag(store, "session_ended")

----------------------------------------------------------------------------
(* Phone normalisation alone: _format_brazilian_phone applied to digit     *)
(* strings with and without the country code, with and without an area     *)
(* code, of every length up to MaxPhoneLen, and to its own last result.    *)

\* digits of the longest number normalised
MaxPhoneLen == 13

\* what a number starts with: nothing, the country code, an area code, both,
\* or the area code 55 after the country code
PhoneHeads ==
    {<<>>, CountryCode, <<"1", "1">>, CountryCode \o <<"1", "1">>, CountryCode \o CountryCode}

\* the digit that follows
PhoneLeads == {"2", "5", "6", "7", "8", "9"}

PhoneInputs ==
    {<<>>, NoneVal, MsgPhoneFormatted}
    \cup {p \in {head \o <<lead>> \o DigitRun(n) :
                    head \in PhoneHeads, lead \in PhoneLeads, n \in 0..MaxPhoneLen} :
             Len(p) <= MaxPhoneLen}

PhoneResult(op, phone, formatted) == [op |-> op, phone |-> phone, formatted |-> formatted]

InitPhone ==
    /\ store = EmptyDict
    /\ notifications = 0
    /\ leadStored = FALSE
    /\ result = PhoneResult("none", <<>>, <<>>)
    /\ authEvent = FALSE
    /\ inflight = EmptyDict

Format(phone) ==
    /\ result' = PhoneResult("_format_brazilian_phone", phone, FormatBrazilianPhone(phone))
    /\ UNCHANGED <<store, notifications, leadStored, authEvent, inflight>>

NextPhone == \E phone \in PhoneInputs \cup {result.formatted} : Format(phone)

SpecPhone == InitPhone /\ [][NextPhone]_vars

\* the national number of a digit string: what follows the country code, or
\* the whole string when it does not start with the country code
National(d) ==
    IF Len(d) >= 2 /\ d[1] = "5" /\ d[2] = "5" THEN [i \in 1..(Len(d) - 2) |-> d[i + 2]]
    ELSE d

\* C39: phone normalisation is idempotent: the result of normalising a
\* number, normalised again, is returned unchanged; every non-empty result
\* starts with the country code 55; a 10-digit national number whose 8-digit
\* subscriber part starts with 6, 7, 8 or 9 gets a 9 before the subscriber
\* part, and an 11-digit national number is returned as it is after the
\* country code.
C39_PhoneNormalization ==
    /\ [][result'.phone = result.formatted => result'.formatted = result'.phone]_vars
    /\ [](LET national == National(SelectSeq(result.phone, IsDigit))
              formatted == result.formatted
          IN /\ formatted # <<>>
                => Len(formatted) >= 2 /\ formatted[1] = "5" /\ formatted[2] = "5"
             /\ (Len(national) = 10 /\ national[3] \in {"6", "7", "8", "9"})
                => formatted = <<"5", "5", national[1], national[2], "9">>
                                  \o [i \in 1..8 |-> national[i + 2]]
             /\ Len(national) = 11 => formatted = <<"5", "5">> \o national)

\* the number 11 8777-7777 given with its country code got its ninth digit,
\* and the result was normalised once more
C39_Witness ==
    /\ result.op = "_format_brazilian_phone"
    /\ result.phone = <<"5", "5", "1", "1", "9", "8">> \o DigitRun(7)
    /\ result.formatted = result.phone

====
